---- MODULE Spec2Model ----
(***************************************************************************)
(* Model of DependencyExtractor (dependency-tree.js): the recursive,       *)
(* depth-bounded traversal of extractDependencies, driven by analyze.      *)
(*                                                                         *)
(* Files are numbered 1..MaxFiles and all exist on disk; path 0 is a path  *)
(* at which no file exists.  An import specifier s >= 1 is a relative      *)
(* specifier naming file s, specifier 0 names nothing that can be found.   *)
(* The content of a file is fixed by the first read of it (getFileInfo in  *)
(* the call that expands it) and stays what it is for every later read.    *)
(* Files are numbered in the order in which they are first mentioned (as   *)
(* the argument of analyze or in an import list that is read): every file  *)
(* system and call sequence is one of these up to renaming its files.      *)
(* The recursion of extractDependencies is made explicit: `stack` holds    *)
(* one frame per active call, each frame the locals of that call.          *)
(* The returned tree is stored by position: <<>> is the root, pos \o <<k>> *)
(* is the k-th entry of the `dependencies` array of the node at pos.       *)
(***************************************************************************)
EXTENDS Integers, Sequences, FiniteSets, TLC

\* ---- bounds of the model ------------------------------------------------
MaxFiles == 3
MaxEdges == 3
MaxDepthOpt == 1
MaxRuns == 2

\* ---- values -------------------------------------------------------------
\* JS Infinity: larger than every depth a traversal can reach.
Infinity == 999
\* JS null / undefined for a path, a specifier or a depth.
Null == 0 - 1

Files == 1..MaxFiles
Paths == 0..MaxFiles
Specs == 0..MaxFiles
\* the call stack of the engine is finite; a traversal that marks files as
\* visited never nests deeper than the number of files.
MaxStack == MaxFiles + 1

VARIABLES
    imports,          \* file system, for the files read so far:
                      \* file -> parseImports(content of file)
    maxDepth,         \* this.maxDepth
    includeExternal,  \* this.includeExternal
    visited,          \* this.visited     : Map path -> [depth]
    circularDeps,     \* this.circularDeps: Set of <<from, to>>
    allFiles,         \* this.allFiles    : Map path -> result node
    unresolved,       \* this.unresolved  : Set of specifiers
    stack,            \* active calls of extractDependencies, outermost first
    tree,             \* nodes built by the current analyze call, by position
    pc,               \* "idle" | "running" | "done" | "error" | "overflow"
    runs,             \* number of analyze calls made on this instance
    roots,            \* the filePath argument of each analyze call
    fileAttrs,        \* file system, for the files read so far:
                      \* file -> what statSync/readFileSync meet there
    fileKinds,        \* file system: the attributes a file on it can have
    bare              \* file system: the specifiers that are bare names of
                      \* modules the host's require.resolve finds

\* The resolver and the project-root detection, with the disk they look at
\* (ResolverSpec and RootSpec below; Spec and FairSpec leave these alone).
VARIABLES
    disk,             \* file system: path -> "file" | "dir", a path being the
                      \* sequence of its segments
    installed,        \* the module names the host's require.resolve finds
    cwd,              \* process.cwd()
    rootOption,       \* options.rootDir as given to the constructor
    rootDir,          \* this.rootDir
    excludePatterns,  \* this.excludePatterns
    svelteAliases,    \* this.svelteAliases, in the order of Object.entries
    extensions,       \* this.extensions
    call              \* the last call of resolveImportPath or of
                      \* autoDetectProjectRoot: its arguments and its result

\* The import extractor as a function of the text it is given (ParseSpec).
VARIABLES
    sourceText,       \* the content argument of parseImports: its lines
    parsed            \* the calls of parseImports made: what each returned

\* LineTrackingEditor (line-tracker-editor.ts) with the one file it edits
\* (EditorSpec).
VARIABLES
    fileOnDisk,       \* file system: the content of the file, its characters
    fileStates,       \* this.fileStates: Map filePath -> FileState
    queued,           \* number of queueEdit calls that were accepted
    applyResult       \* the calls of applyEdits made: what each returned and
                      \* the file state and the disk it started from

graphVars == <<imports, maxDepth, visited, circularDeps, allFiles,
               unresolved, stack, tree, pc, runs, roots, fileAttrs>>

envVars == <<fileKinds, bare>>

resolverVars == <<disk, installed, cwd, rootOption, rootDir, excludePatterns,
                  svelteAliases, extensions, call>>

parserVars == <<sourceText, parsed>>

editorVars == <<fileOnDisk, fileStates, queued, applyResult>>

vars == <<imports, maxDepth, includeExternal, visited, circularDeps, allFiles,
          unresolved, stack, tree, pc, runs, roots, fileAttrs, fileKinds,
          bare, disk, installed, cwd, rootOption, rootDir, excludePatterns,
          svelteAliases, extensions, call, sourceText, parsed, fileOnDisk,
          fileStates, queued, applyResult>>

\* ---- helpers ------------------------------------------------------------
\* number of import statements in the files of the set S
RECURSIVE SumLen(_, _)
SumLen(f, S) ==
    IF S = {} THEN 0
    ELSE LET x == CHOOSE y \in S : TRUE
         IN  Len(f[x]) + SumLen(f, S \ {x})

\* parseImports returns Array.from(new Set(...)): the lists of at most b
\* specifiers, no specifier twice.
ImportLists(b) ==
    {s \in UNION {[1..n -> Specs] : n \in 0..b} :
        \A i, j \in 1..Len(s) : i # j => s[i] # s[j]}

\* the number of files mentioned so far: files 1..Named
Named ==
    LET M == {roots[k] : k \in 1..Len(roots)}
             \cup UNION {{imports[f][k] : k \in 1..Len(imports[f])} :
                            f \in DOMAIN imports}
    IN  IF M = {} THEN 0 ELSE CHOOSE m \in M : \A x \in M : x <= m

\* s, read from file p, mentions the files unmentioned so far in the order
\* of their numbers
InNamingOrder(s, p) ==
    LET n == IF p > Named THEN p ELSE Named
    IN  \A k \in 1..Len(s) :
           s[k] <= n + Cardinality({j \in 1..(k - 1) : s[j] > n}) + 1

\* options.maxDepth || Infinity
ConstructorMaxDepth(opt) == IF opt = 0 THEN Infinity ELSE opt

existsSync(p) == p \in Files

\* resolveImportPath, by its result.  A bare module name goes to the last
\* strategy: null with includeExternal off, else what require.resolve
\* returns, the path of the module's file.  Every other specifier: the file
\* it names when that file exists (tryResolveWithExtensions found it),
\* otherwise null.
resolveImportPath(importPath, fromFile) ==
    IF importPath \in bare
    THEN IF includeExternal THEN importPath ELSE Null
    ELSE IF existsSync(importPath) THEN importPath ELSE Null

\* getFileInfo + parseImports: what reading file p can yield, the content
\* already seen for p if it was read before
ReadImports(p) ==
    IF p \in DOMAIN imports THEN {imports[p]}
    ELSE {s \in ImportLists(MaxEdges - SumLen(imports, DOMAIN imports)) :
            InNamingOrder(s, p)}

\* this.maxContentLength, in units of the model's file sizes
maxContentLength == 1

\* a file as statSync and readFileSync meet it: does statSync succeed, is the
\* extension one of isBinaryFile's, the size, does readFileSync succeed
FileAttr(ok, bin, sz, rd) ==
    [statOk |-> ok, binary |-> bin, size |-> sz, readable |-> rd]

\* a readable text file of the largest size that is still read
TextFile == FileAttr(TRUE, FALSE, maxContentLength * 4, TRUE)

\* the files a disk can hold: one for each way getFileInfo can go, and one
\* that is binary, too large and unreadable at once
AllFileKinds ==
    {TextFile,
     FileAttr(TRUE, TRUE, maxContentLength * 4, TRUE),
     FileAttr(TRUE, FALSE, maxContentLength * 4 + 1, TRUE),
     FileAttr(TRUE, FALSE, maxContentLength * 4, FALSE),
     FileAttr(FALSE, FALSE, maxContentLength * 4, TRUE),
     FileAttr(TRUE, TRUE, maxContentLength * 4 + 1, FALSE)}

\* variant: the size test is >=
getFileInfo_AtCeiling(a) ==
    IF ~a.statOk
    THEN [size |-> 0, isText |-> FALSE, skipReason |-> "undefined",
          error |-> TRUE]
    ELSE IF a.binary
    THEN [size |-> a.size, isText |-> FALSE, skipReason |-> "Binary file",
          error |-> FALSE]
    ELSE IF a.size >= maxContentLength * 4
    THEN [size |-> a.size, isText |-> FALSE, skipReason |-> "File too large",
          error |-> FALSE]
    ELSE IF ~a.readable
    THEN [size |-> a.size, isText |-> FALSE, skipReason |-> "Read error",
          error |-> FALSE]
    ELSE [size |-> a.size, isText |-> TRUE, skipReason |-> "null",
          error |-> FALSE]

\* getFileInfo(filePath): the outer catch (statSync threw), the two tests
\* that skip the read, the inner catch (readFileSync threw), the content
getFileInfo(a) ==
    IF ~a.statOk
    THEN [size |-> 0, isText |-> FALSE, skipReason |-> "undefined",
          error |-> TRUE]
    ELSE IF a.binary
    THEN [size |-> a.size, isText |-> FALSE, skipReason |-> "Binary file",
          error |-> FALSE]
    ELSE IF a.size > maxContentLength * 4
    THEN [size |-> a.size, isText |-> FALSE, skipReason |-> "File too large",
          error |-> FALSE]
    ELSE IF ~a.readable
    THEN [size |-> a.size, isText |-> FALSE, skipReason |-> "Read error",
          error |-> FALSE]
    ELSE [size |-> a.size, isText |-> TRUE, skipReason |-> "null",
          error |-> FALSE]

\* the attributes file p can have when its content parses to the import list
\* `content`: parseImports returns [] for the empty content of a file that
\* was not read
ReadAttrs(p, content) ==
    IF p \in DOMAIN fileAttrs THEN {fileAttrs[p]}
    ELSE {a \in fileKinds : content # <<>> => getFileInfo(a).isText}

\* visited.get(p).depth, Null when p is not in the table
SeenDepth(p) == IF p \in DOMAIN visited THEN visited[p].depth ELSE Null

\* ---- the checks of extractDependencies ------------------------------------
\* variant: the depth check left out
ExceedsDepth_NoLimit(currentDepth) == FALSE

\* if (currentDepth > this.maxDepth) return null
ExceedsDepth(currentDepth) == currentDepth > maxDepth

\* variant: existing.depth < currentDepth
AlreadyVisited_Strict(resolvedPath, currentDepth) ==
    /\ resolvedPath \in DOMAIN visited
    /\ visited[resolvedPath].depth < currentDepth

\* existing && existing.depth <= currentDepth
AlreadyVisited(resolvedPath, currentDepth) ==
    /\ resolvedPath \in DOMAIN visited
    /\ visited[resolvedPath].depth <= currentDepth

\* variant: the loop leaves cycle detection to the entry check of the call
ImportIsCircular_Never(resolvedImport, currentDepth) == FALSE

\* variant: the loop compares depths the way the entry check does
ImportIsCircular_ByDepth(resolvedImport, currentDepth) ==
    /\ resolvedImport \in DOMAIN visited
    /\ visited[resolvedImport].depth <= currentDepth + 1

\* if (this.visited.has(resolvedImport)), inside the import loop
ImportIsCircular(resolvedImport, currentDepth) ==
    resolvedImport \in DOMAIN visited

\* variant: the visited table is never written
MarkVisited_Skip(v, resolvedPath, currentDepth) == v

\* this.visited.set(resolvedPath, { depth: currentDepth })
MarkVisited(v, resolvedPath, currentDepth) ==
    (resolvedPath :> [depth |-> currentDepth]) @@ v

\* entry of extractDependencies: which of the three early returns is taken
EntryOutcome(resolvedPath, currentDepth) ==
    IF ExceedsDepth(currentDepth) THEN "null"
    ELSE IF AlreadyVisited(resolvedPath, currentDepth) THEN "circular"
    ELSE IF ~existsSync(resolvedPath) THEN "notfound"
    ELSE "expand"

\* variant: analyze also rejects the 'File not found' node
AnalyzeThrows_OnMissing(outcome) == outcome \in {"null", "notfound"}

\* const tree = this.extractDependencies(filePath); if (!tree) throw ...
AnalyzeThrows(outcome) == outcome = "null"

\* ---- nodes --------------------------------------------------------------
\* Fields the code leaves undefined are FALSE (flags) or Null.
\* seenDepth is a history field: the depth recorded for the path in the
\* visited table at the moment the node's import edge was discovered.
CircularNode(p, d, orig, seen) ==
    [absolutePath |-> p, exists |-> FALSE, circular |-> TRUE,
     external |-> FALSE, error |-> FALSE, depth |-> d, ndeps |-> 0,
     originalImport |-> orig, seenDepth |-> seen,
     skipReason |-> "undefined", isText |-> FALSE, importCount |-> Null]

NotFoundNode(p, d, orig, seen) ==
    [absolutePath |-> p, exists |-> FALSE, circular |-> FALSE,
     external |-> FALSE, error |-> TRUE, depth |-> d, ndeps |-> 0,
     originalImport |-> orig, seenDepth |-> seen,
     skipReason |-> "undefined", isText |-> FALSE, importCount |-> Null]

ExternalNode(d, orig) ==
    [absolutePath |-> Null, exists |-> FALSE, circular |-> FALSE,
     external |-> TRUE, error |-> FALSE, depth |-> d, ndeps |-> 0,
     originalImport |-> orig, seenDepth |-> Null,
     skipReason |-> "undefined", isText |-> FALSE, importCount |-> Null]

\* the result of a call that read the file: skipReason and isText are
\* those of its fileInfo, importCount is imports.length
ResultNode(p, d, n, orig, seen) ==
    [absolutePath |-> p, exists |-> TRUE, circular |-> FALSE,
     external |-> FALSE, error |-> FALSE, depth |-> d, ndeps |-> n,
     originalImport |-> orig, seenDepth |-> seen,
     skipReason |-> getFileInfo(fileAttrs[p]).skipReason,
     isText |-> getFileInfo(fileAttrs[p]).isText,
     importCount |-> Len(imports[p])]

\* the locals of one call of extractDependencies that got past its checks
Frame(p, d, pos, orig, seen) ==
    [path |-> p, depth |-> d, i |-> 1, pos |-> pos, ndeps |-> 0,
     originalImport |-> orig, seenDepth |-> seen]

\* ---- initial state: new DependencyExtractor(options) --------------------
GraphInit ==
    /\ imports = <<>>
    /\ fileAttrs = <<>>
    /\ \E opt \in (0 - 1)..MaxDepthOpt : maxDepth = ConstructorMaxDepth(opt)
    /\ includeExternal \in BOOLEAN
    /\ visited = <<>>
    /\ circularDeps = {}
    /\ allFiles = <<>>
    /\ unresolved = {}
    /\ stack = <<>>
    /\ tree = <<>>
    /\ pc = "idle"
    /\ runs = 0
    /\ roots = <<>>

\* the traversal sees the resolver by its results only: the layout of the
\* disk and the resolver's options are left empty
ResolverIdle ==
    /\ disk = <<>>
    /\ installed = {}
    /\ cwd = <<>>
    /\ rootOption = <<>>
    /\ rootDir = <<>>
    /\ excludePatterns = {}
    /\ svelteAliases = <<>>
    /\ extensions = <<>>
    /\ call = <<>>

\* parseImports is not called
ParserIdle ==
    /\ sourceText = <<>>
    /\ parsed = <<>>

\* no LineTrackingEditor is at work
EditorIdle ==
    /\ fileOnDisk = <<>>
    /\ fileStates = <<>>
    /\ queued = 0
    /\ applyResult = <<>>

\* a disk of readable text files, every specifier a relative one
Init ==
    /\ GraphInit
    /\ fileKinds = {TextFile}
    /\ bare = {}
    /\ ResolverIdle
    /\ ParserIdle
    /\ EditorIdle

\* a disk whose files can be binary, too large or unreadable, and on which
\* the first file that the root imports can be an installed module, imported
\* by its bare name
DiskInit ==
    /\ GraphInit
    /\ fileKinds = AllFileKinds
    /\ bare \in {{}, {2}}
    /\ ResolverIdle
    /\ ParserIdle
    /\ EditorIdle

\* ---- analyze(filePath): the call at depth 0 -----------------------------
Analyze(filePath) ==
    /\ pc \in {"idle", "done", "error", "overflow"}
    /\ runs < MaxRuns
    /\ runs' = runs + 1
    /\ roots' = Append(roots, filePath)
    /\ LET outcome == EntryOutcome(filePath, 0)
           seen == SeenDepth(filePath)
       IN  IF AnalyzeThrows(outcome)
           THEN /\ pc' = "error"
                /\ tree' = <<>>
                /\ stack' = <<>>
                /\ UNCHANGED <<visited, imports, fileAttrs>>
           ELSE IF outcome = "expand"
           THEN /\ pc' = "running"
                /\ tree' = <<>>
                /\ visited' = MarkVisited(visited, filePath, 0)
                /\ stack' = <<Frame(filePath, 0, <<>>, Null, seen)>>
                /\ \E content \in ReadImports(filePath) :
                   \E attr \in ReadAttrs(filePath, content) :
                      /\ imports' = (filePath :> content) @@ imports
                      /\ fileAttrs' = (filePath :> attr) @@ fileAttrs
           ELSE /\ pc' = "done"
                /\ stack' = <<>>
                /\ UNCHANGED <<visited, imports, fileAttrs>>
                /\ tree' = (<<>> :> (IF outcome = "circular"
                                     THEN CircularNode(filePath, 0, Null, seen)
                                     ELSE NotFoundNode(filePath, 0, Null, seen)))
    /\ UNCHANGED <<maxDepth, includeExternal, circularDeps, allFiles,
                   unresolved, envVars, resolverVars,
                   parserVars, editorVars>>

\* ---- one iteration of `for (const importPath of imports)` ---------------
Top == stack[Len(stack)]
HasImport == pc = "running" /\ Top.i <= Len(imports[Top.path])
\* variant: the import list is walked from its end
ImportPath_Reversed == imports[Top.path][Len(imports[Top.path]) + 1 - Top.i]

ImportPath == imports[Top.path][Top.i]
ResolvedImport == resolveImportPath(ImportPath, Top.path)
ChildPos == Append(Top.pos, Top.ndeps + 1)

\* the frame after the iteration; pushed = an entry went into dependencies
Advance(f, pushed) ==
    [f EXCEPT !.i = @ + 1, !.ndeps = IF pushed THEN @ + 1 ELSE @]

SetTop(f) == [stack EXCEPT ![Len(stack)] = f]

\* resolvedImport is in the visited table: circular leaf, cycle edge recorded
ImportCircular ==
    /\ HasImport
    /\ ResolvedImport # Null
    /\ ImportIsCircular(ResolvedImport, Top.depth)
    /\ circularDeps' = circularDeps \cup {<<Top.path, ResolvedImport>>}
    /\ tree' = (ChildPos :> CircularNode(ResolvedImport, Top.depth + 1,
                                         ImportPath, SeenDepth(ResolvedImport)))
               @@ tree
    /\ stack' = SetTop(Advance(Top, TRUE))
    /\ UNCHANGED <<imports, maxDepth, includeExternal, visited, allFiles,
                   unresolved, pc, runs, roots, fileAttrs, envVars,
                   resolverVars, parserVars, editorVars>>

\* resolvedImport is not in the table: extractDependencies(resolvedImport,
\* currentDepth + 1); a null child is dropped, a leaf is pushed at once, an
\* expanded child is pushed when its call returns (see Return).
ImportRecurse ==
    /\ HasImport
    /\ ResolvedImport # Null
    /\ ~ImportIsCircular(ResolvedImport, Top.depth)
    /\ LET outcome == EntryOutcome(ResolvedImport, Top.depth + 1)
           seen == SeenDepth(ResolvedImport)
       IN  IF outcome = "null"
           THEN /\ stack' = SetTop(Advance(Top, FALSE))
                /\ UNCHANGED <<tree, visited, pc, imports, fileAttrs>>
           ELSE IF outcome = "expand"
           THEN IF Len(stack) >= MaxStack
                THEN /\ pc' = "overflow"
                     /\ stack' = <<>>
                     /\ UNCHANGED <<tree, visited, imports, fileAttrs>>
                ELSE /\ visited' = MarkVisited(visited, ResolvedImport,
                                               Top.depth + 1)
                     /\ stack' = Append(SetTop(Advance(Top, FALSE)),
                                        Frame(ResolvedImport, Top.depth + 1,
                                              ChildPos, ImportPath, seen))
                     /\ \E content \in ReadImports(ResolvedImport) :
                        \E attr \in ReadAttrs(ResolvedImport, content) :
                           /\ imports' = (ResolvedImport :> content) @@ imports
                           /\ fileAttrs' = (ResolvedImport :> attr)
                                              @@ fileAttrs
                     /\ UNCHANGED <<tree, pc>>
           ELSE /\ tree' = (ChildPos :>
                              (IF outcome = "circular"
                               THEN CircularNode(ResolvedImport, Top.depth + 1,
                                                 ImportPath, seen)
                               ELSE NotFoundNode(ResolvedImport, Top.depth + 1,
                                                 ImportPath, seen)))
                           @@ tree
                /\ stack' = SetTop(Advance(Top, TRUE))
                /\ UNCHANGED <<visited, pc, imports, fileAttrs>>
    /\ UNCHANGED <<maxDepth, includeExternal, circularDeps, allFiles,
                   unresolved, runs, roots, envVars, resolverVars,
                   parserVars, editorVars>>

\* not resolved, includeExternal on: external leaf
ImportExternal ==
    /\ HasImport
    /\ ResolvedImport = Null
    /\ includeExternal
    /\ tree' = (ChildPos :> ExternalNode(Top.depth + 1, ImportPath)) @@ tree
    /\ stack' = SetTop(Advance(Top, TRUE))
    /\ UNCHANGED <<imports, maxDepth, includeExternal, visited, circularDeps,
                   allFiles, unresolved, pc, runs, roots, fileAttrs, envVars,
                   resolverVars, parserVars, editorVars>>

\* not resolved, includeExternal off: this.unresolved.add(importPath)
ImportUnresolved ==
    /\ HasImport
    /\ ResolvedImport = Null
    /\ ~includeExternal
    /\ unresolved' = unresolved \cup {ImportPath}
    /\ stack' = SetTop(Advance(Top, FALSE))
    /\ UNCHANGED <<imports, maxDepth, includeExternal, visited, circularDeps,
                   allFiles, tree, pc, runs, roots, fileAttrs, envVars,
                   resolverVars, parserVars, editorVars>>

\* ---- the loop is over: build result, allFiles.set, return ---------------
Return ==
    /\ pc = "running"
    /\ Top.i > Len(imports[Top.path])
    /\ LET result == ResultNode(Top.path, Top.depth, Top.ndeps, Null,
                                Top.seenDepth)
           pushed == [result EXCEPT !.originalImport = Top.originalImport]
       IN  /\ allFiles' = (Top.path :> result) @@ allFiles
           /\ tree' = (Top.pos :> pushed) @@ tree
    /\ IF Len(stack) = 1
       THEN /\ stack' = <<>>
            /\ pc' = "done"
       ELSE /\ stack' = [SubSeq(stack, 1, Len(stack) - 1)
                            EXCEPT ![Len(stack) - 1].ndeps = @ + 1]
            /\ pc' = pc
    /\ UNCHANGED <<imports, maxDepth, includeExternal, visited, circularDeps,
                   unresolved, runs, roots, fileAttrs, envVars, resolverVars,
                   parserVars, editorVars>>

Step == ImportCircular \/ ImportRecurse \/ ImportExternal \/ ImportUnresolved
           \/ Return

Next ==
    \/ \E filePath \in Paths : filePath <= Named + 1 /\ Analyze(filePath)
    \/ ImportCircular
    \/ ImportRecurse
    \/ ImportExternal
    \/ ImportUnresolved
    \/ Return

Spec == Init /\ [][Next]_vars

\* one build on a fresh instance
FreshNext ==
    \/ \E filePath \in Paths :
          runs = 0 /\ filePath <= Named + 1 /\ Analyze(filePath)
    \/ ImportCircular
    \/ ImportRecurse
    \/ ImportExternal
    \/ ImportUnresolved
    \/ Return

\* extractDependencies is synchronous: a started traversal keeps running.
FairSpec == Init /\ [][FreshNext]_vars /\ WF_vars(Step)

\* one build on a fresh instance, on a disk with all kinds of files
DiskSpec == DiskInit /\ [][FreshNext]_vars

TypeOK ==
    /\ pc \in {"idle", "running", "done", "error", "overflow"}
    /\ runs \in 0..MaxRuns
    /\ DOMAIN visited \subseteq Files
    /\ DOMAIN allFiles \subseteq Files
    /\ unresolved \subseteq Specs
    /\ (pc = "running") <=> (stack # <<>>)

\* ---- properties -----------------------------------------------------------
Root == roots[runs]
Finished == runs >= 1 /\ pc \in {"done", "error"}
FreshDone == runs = 1 /\ pc = "done"
NodeAt(pos) == tree[pos]
Children(pos) == {c \in DOMAIN tree : Len(c) = Len(pos) + 1
                                      /\ SubSeq(c, 1, Len(pos)) = pos}
Parent(pos) == SubSeq(pos, 1, Len(pos) - 1)
Ancestors(pos) == {SubSeq(pos, 1, k) : k \in 0..(Len(pos) - 1)}
\* the files that f is known to import (none while f has not been read)
Targets(f) ==
    IF f \notin DOMAIN imports THEN {}
    ELSE {resolveImportPath(imports[f][k], f) : k \in 1..Len(imports[f])}
            \ {Null}

\* files reachable from r by an import chain of at most n edges
RECURSIVE ReachWithin(_, _)
ReachWithin(r, n) ==
    IF n <= 0 THEN {r}
    ELSE LET S == ReachWithin(r, n - 1)
         IN  S \cup UNION {Targets(f) : f \in S \cap Files}

\* number of calls of extractDependencies that expanded (or are expanding) p
ExpandCount(p) ==
    Cardinality({pos \in DOMAIN tree :
                    NodeAt(pos).exists /\ NodeAt(pos).absolutePath = p})
    + Cardinality({k \in 1..Len(stack) : stack[k].path = p})

C2_TwoFileCycle ==
    \A A, B \in Files :
        (/\ A # B
         /\ runs = 1
         /\ Finished
         /\ Root = A
         /\ maxDepth >= 1
         /\ imports[A] = <<B>>
         /\ B \in DOMAIN imports => imports[B] = <<A>>)
        => /\ pc = "done"
           /\ DOMAIN tree = {<<>>, <<1>>, <<1, 1>>}
           /\ NodeAt(<<>>).absolutePath = A
           /\ NodeAt(<<>>).exists /\ ~NodeAt(<<>>).circular
           /\ NodeAt(<<>>).ndeps = 1
           /\ NodeAt(<<1>>).absolutePath = B
           /\ NodeAt(<<1>>).exists /\ ~NodeAt(<<1>>).circular
           /\ NodeAt(<<1>>).ndeps = 1
           /\ NodeAt(<<1, 1>>).absolutePath = A
           /\ NodeAt(<<1, 1>>).circular
           /\ NodeAt(<<1, 1>>).ndeps = 0
           /\ Cardinality(circularDeps) = 1
           /\ circularDeps \subseteq {<<A, B>>, <<B, A>>}

C2_Witness ==
    /\ FreshDone
    /\ \E A, B \in Files :
          /\ A # B
          /\ Root = A
          /\ imports[A] = <<B>>
          /\ B \in DOMAIN imports
          /\ imports[B] = <<A>>
    /\ <<1, 1>> \in DOMAIN tree
    /\ NodeAt(<<1, 1>>).circular

\* C3, as claimed: on a fresh instance every circular node and every recorded
\* cycle edge (from, to) denotes a real cycle: `to` is the importing node
\* itself or one of its ancestors in the tree; a file merely imported twice
\* through different branches is never reported as circular.
C3_CircularIsBackEdge ==
    FreshDone =>
        /\ \A pos \in DOMAIN tree :
              NodeAt(pos).circular =>
                 \E a \in Ancestors(pos) :
                    NodeAt(a).absolutePath = NodeAt(pos).absolutePath
        /\ \A e \in circularDeps :
              \E pos \in DOMAIN tree :
                 /\ pos # <<>>
                 /\ NodeAt(pos).circular
                 /\ NodeAt(pos).absolutePath = e[2]
                 /\ NodeAt(Parent(pos)).absolutePath = e[1]
                 /\ \E a \in Ancestors(pos) : NodeAt(a).absolutePath = e[2]

\* C4, as claimed: on a fresh instance a node is circular iff, when its import
\* edge was discovered, its path was in the visited table with a recorded
\* depth <= the depth of the node; a circular node has no children.
C4_CircularIffSeenNotDeeper ==
    runs = 1 =>
        \A pos \in DOMAIN tree :
           /\ NodeAt(pos).circular <=>
                 (/\ NodeAt(pos).seenDepth # Null
                  /\ NodeAt(pos).seenDepth <= NodeAt(pos).depth)
           /\ NodeAt(pos).circular =>
                 (NodeAt(pos).ndeps = 0 /\ Children(pos) = {})

\* C5, as claimed: a root whose N specifiers resolve to N distinct existing
\* files (other than the root itself) gets exactly N children, each
\* exists=true and not circular, whatever those files import.
C5_RootHasAllChildren ==
    (/\ FreshDone
     /\ existsSync(Root)
     /\ Root \in DOMAIN imports
     /\ \A k \in 1..Len(imports[Root]) :
           /\ resolveImportPath(imports[Root][k], Root) # Null
           /\ resolveImportPath(imports[Root][k], Root) # Root)
    => /\ NodeAt(<<>>).ndeps = Len(imports[Root])
       /\ \A k \in 1..Len(imports[Root]) :
             /\ <<k>> \in DOMAIN tree
             /\ NodeAt(<<k>>).exists
             /\ ~NodeAt(<<k>>).circular

\* C6: with maximum depth D on a fresh instance, a file reachable from the
\* root only through import chains longer than D is at no position of the
\* tree; a node at depth D has no child for an import whose target was not
\* yet visited; and no specifier that resolves is in the unresolved set.
C6_DepthLimitOmits ==
    runs = 1 =>
        /\ \A pos \in DOMAIN tree :
              NodeAt(pos).absolutePath # Null =>
                 NodeAt(pos).absolutePath
                    \in ReachWithin(roots[1],
                                    IF maxDepth > MaxFiles THEN MaxFiles
                                                           ELSE maxDepth)
        /\ \A pos \in DOMAIN tree :
              (NodeAt(pos).exists /\ NodeAt(pos).depth = maxDepth) =>
                 \A c \in Children(pos) :
                    NodeAt(c).absolutePath # Null => NodeAt(c).seenDepth # Null
        /\ \A s \in unresolved : resolveImportPath(s, roots[1]) = Null

C6_Witness ==
    /\ FreshDone
    /\ maxDepth = 1
    /\ <<1>> \in DOMAIN tree
    /\ NodeAt(<<1>>).exists
    /\ NodeAt(<<1>>).ndeps = 0
    /\ \E B \in Targets(NodeAt(<<1>>).absolutePath) :
          \A pos \in DOMAIN tree : NodeAt(pos).absolutePath # B

\* C7, as claimed: no node of any kind in a returned tree has a depth
\* greater than the configured maximum depth.
C7_NoNodeBeyondMaxDepth ==
    pc = "done" => \A pos \in DOMAIN tree : NodeAt(pos).depth <= maxDepth

\* C8: build run again with an existing root file that was the root of an
\* earlier run on the same instance returns a root marked circular with no
\* children.
C8_SecondRunRootCircular ==
    (/\ runs >= 2
     /\ pc = "done"
     /\ existsSync(Root)
     /\ \E i \in 1..(runs - 1) : roots[i] = Root)
    => /\ DOMAIN tree = {<<>>}
       /\ NodeAt(<<>>).absolutePath = Root
       /\ NodeAt(<<>>).circular
       /\ NodeAt(<<>>).ndeps = 0

C8_Witness ==
    /\ runs = 2
    /\ pc = "done"
    /\ roots[1] = roots[2]
    /\ existsSync(Root)
    /\ imports[Root] # <<>>
    /\ Root \in DOMAIN allFiles
    /\ allFiles[Root].ndeps >= 1
    /\ NodeAt(<<>>).circular

\* C9: during one build on a fresh instance every file is expanded at most
\* once, and an entry of the visited table, once set, is never removed and
\* its depth never changes.
C9_VisitedMonotonic ==
    /\ [](runs = 1 => \A p \in Files : ExpandCount(p) <= 1)
    /\ [][(runs = 1 /\ runs' = 1) =>
             \A p \in DOMAIN visited :
                p \in DOMAIN visited' /\ visited'[p] = visited[p]]_vars

C9_Witness ==
    /\ FreshDone
    /\ Cardinality(DOMAIN visited) = MaxFiles
    /\ \E pos \in DOMAIN tree :
          /\ NodeAt(pos).circular
          /\ NodeAt(pos).seenDepth > NodeAt(pos).depth

\* C10: with unlimited maximum depth every started build, also over
\* self-imports and cycles, returns its tree; the recursion never runs away.
C10_Terminates ==
    /\ [](pc # "overflow")
    /\ ((pc = "running" /\ maxDepth = Infinity) ~> (pc = "done"))

C10_Witness ==
    /\ pc = "done"
    /\ maxDepth = Infinity
    /\ \E f \in Files : f \in Targets(f) /\ f \in DOMAIN visited
    /\ \E pos \in DOMAIN tree : Len(pos) >= 2 /\ NodeAt(pos).circular

\* C11: the tree of one build on a fresh instance is acyclic: the active
\* calls are for pairwise different files, no expanded node has an expanded
\* ancestor with the same absolute path, and a node whose path is the path of
\* one of its ancestors is a circular leaf without children.
C11_TreeAcyclic ==
    runs = 1 =>
        /\ \A j, k \in 1..Len(stack) : stack[j].path = stack[k].path => j = k
        /\ pc = "done" =>
              \A pos \in DOMAIN tree : \A a \in Ancestors(pos) :
                 NodeAt(a).absolutePath = NodeAt(pos).absolutePath =>
                    /\ NodeAt(a).exists
                    /\ ~NodeAt(pos).exists
                    /\ NodeAt(pos).circular
                    /\ NodeAt(pos).ndeps = 0
                    /\ Children(pos) = {}

C11_Witness ==
    /\ FreshDone
    /\ \E pos \in DOMAIN tree :
          /\ Len(pos) >= 2
          /\ NodeAt(pos).circular
          /\ NodeAt(pos).absolutePath = Root
          /\ NodeAt(Parent(pos)).exists
    /\ \E pos \in DOMAIN tree :
          /\ Len(pos) = 1
          /\ NodeAt(pos).circular
          /\ NodeAt(pos).absolutePath = Root

\* ---- one build on a disk with all kinds of files (DiskSpec) ---------------
\* the reasons for which the content of a file with attributes a is omitted
OmissionReasons(a) ==
    {r \in {"Binary file", "File too large", "Read error"} :
        \/ r = "Binary file" /\ a.binary
        \/ r = "File too large" /\ a.size > maxContentLength * 4
        \/ r = "Read error" /\ ~a.readable}

\* import k of the expanded node at pos has been dealt with: it has its child,
\* or it did not resolve and is in the unresolved set, or its target lies
\* beyond the maximum depth
ImportHandled(pos, k) ==
    LET p == NodeAt(pos).absolutePath
        r == resolveImportPath(imports[p][k], p)
    IN  \/ \E c \in Children(pos) : NodeAt(c).originalImport = imports[p][k]
        \/ r = Null /\ ~includeExternal /\ imports[p][k] \in unresolved
        \/ r # Null /\ NodeAt(pos).depth + 1 > maxDepth

C15_NullImportIsUnresolved ==
    FreshDone =>
        \A pos \in DOMAIN tree :
           NodeAt(pos).exists =>
              LET p == NodeAt(pos).absolutePath
              IN  \A k \in 1..Len(imports[p]) :
                     resolveImportPath(imports[p][k], p) = Null =>
                        /\ imports[p][k] \in unresolved
                        /\ \A c \in Children(pos) :
                              NodeAt(c).originalImport # imports[p][k]

\* C16, as claimed: with external inclusion enabled, an import by a bare
\* module name for which the resolver returns a path has a leaf with
\* external=true that is not expanded, and the module's file is not entered
\* into the visited table.
C16_ResolvedExternalIsLeaf ==
    (FreshDone /\ includeExternal) =>
        \A pos \in DOMAIN tree :
           (pos # <<>> /\ NodeAt(pos).originalImport \in bare) =>
              /\ NodeAt(pos).external
              /\ ~NodeAt(pos).exists
              /\ NodeAt(pos).ndeps = 0
              /\ Children(pos) = {}
              /\ resolveImportPath(NodeAt(pos).originalImport,
                                   NodeAt(Parent(pos)).absolutePath)
                    \notin DOMAIN visited

\* ==== the resolver on a disk (ResolverSpec) ================================
\* A path is the sequence of its segments: <<>> is "/", <<"p", "R">> is
\* "/p/R".  An import specifier is the sequence of the parts between its
\* slashes: "$lib/x" is <<"$lib", "x">>, "./x" is <<".", "x">>, "pkg" is
\* <<"pkg">>; a first part "/" stands for a leading slash.

\* ---- bounds ---------------------------------------------------------------
\* files and directories on the disk besides the importing files
MaxDiskEntries == 2

\* ---- values ---------------------------------------------------------------
\* null as the result of a resolution: no path has this segment
NoPath == <<"(null)">>

\* the project directory and the node_modules directory the host looks into
ProjectDir == <<"p", "R">>
NodeModules == <<"p", "R", "node_modules">>

\* ---- path.dirname, path.resolve, string concatenation ---------------------
Dirname(p) == IF p = <<>> THEN <<>> ELSE SubSeq(p, 1, Len(p) - 1)

\* path.resolve(base, rel) and path.join(base, rel) for an absolute base:
\* "." stays, ".." goes up, a leading slash starts over
RECURSIVE pathResolve(_, _)
pathResolve(base, rel) ==
    IF rel = <<>> THEN base
    ELSE LET h == Head(rel)
         IN  pathResolve(IF h = "/" THEN <<>>
                         ELSE IF h = "." \/ h = "" THEN base
                         ELSE IF h = ".." THEN Dirname(base)
                         ELSE Append(base, h),
                         Tail(rel))

\* basePath + ext
WithExt(basePath, ext) ==
    IF basePath = <<>> THEN <<ext>>
    ELSE [basePath EXCEPT ![Len(basePath)] = @ \o ext]

\* path.join(basePath, `index${ext}`)
IndexPath(basePath, ext) == Append(basePath, "index" \o ext)

IsPrefix(a, b) == Len(a) <= Len(b) /\ SubSeq(b, 1, Len(a)) = a

\* ---- fs ---------------------------------------------------------------------
\* fs.existsSync(p): an entry of the disk, or a directory on the way to one
fsExistsSync(p) == \E e \in DOMAIN disk : IsPrefix(p, e)

\* fs.statSync(p).isFile()
isFile(p) == p \in DOMAIN disk /\ disk[p] = "file"

\* ---- exclude patterns -------------------------------------------------------
\* the beginnings a segment can have before one of the suffixes below
Stems == {"", "x", "a", "b", "index"}

EndsWith(name, suffix) == \E st \in Stems : name = st \o suffix

\* /name/ : the path holds the segment;  /\.suffix$/ : the path ends with the
\* suffix;  /name\// : the path holds the directory
Contains(name) == [kind |-> "contains", text |-> name]
Suffix(suffix) == [kind |-> "suffix", text |-> suffix]
Directory(name) == [kind |-> "directory", text |-> name]

\* pattern.test(filePath)
Matches(pattern, filePath) ==
    IF pattern.kind = "contains"
    THEN \E i \in 1..Len(filePath) : filePath[i] = pattern.text
    ELSE IF pattern.kind = "suffix"
    THEN filePath # <<>> /\ EndsWith(filePath[Len(filePath)], pattern.text)
    ELSE \E i \in 1..(Len(filePath) - 1) : EndsWith(filePath[i], pattern.text)

\* the default of options.excludePatterns
DefaultExcludePatterns ==
    {Contains("node_modules"), Suffix(".d.ts"), Suffix(".spec.ts"),
     Suffix(".test.ts"), Suffix(".spec.js"), Suffix(".test.js"),
     Directory("dist"), Directory("build"), Directory("coverage"),
     Directory(".git"), Directory(".vscode"), Directory(".idea")}

\* variant: nothing is excluded
shouldExclude_Never(filePath) == FALSE

\* this.excludePatterns.some((pattern) => pattern.test(filePath))
shouldExclude(filePath) ==
    \E pattern \in excludePatterns : Matches(pattern, filePath)

\* ---- extension / index resolution -----------------------------------------
\* the first of the indices in S, 0 when there is none
FirstIndex(S) ==
    IF S = {} THEN 0 ELSE CHOOSE i \in S : \A j \in S : i <= j

\* variant: the index files are tried before the extensions
tryResolveWithExtensions_IndexFirst(basePath) ==
    LET okExt(ext) == /\ fsExistsSync(WithExt(basePath, ext))
                      /\ ~shouldExclude(WithExt(basePath, ext))
        okIndex(ext) == /\ fsExistsSync(IndexPath(basePath, ext))
                        /\ ~shouldExclude(IndexPath(basePath, ext))
        e == FirstIndex({i \in 1..Len(extensions) : okExt(extensions[i])})
        x == FirstIndex({i \in 1..Len(extensions) : okIndex(extensions[i])})
    IN  IF fsExistsSync(basePath) /\ ~shouldExclude(basePath)
           /\ isFile(basePath)
        THEN basePath
        ELSE IF x # 0 THEN IndexPath(basePath, extensions[x])
        ELSE IF e # 0 THEN WithExt(basePath, extensions[e])
        ELSE NoPath

\* tryResolveWithExtensions(basePath): the exact path when it is a file, else
\* the first basePath + ext, else the first basePath/index + ext, else null
tryResolveWithExtensions(basePath) ==
    LET okExt(ext) == /\ fsExistsSync(WithExt(basePath, ext))
                      /\ ~shouldExclude(WithExt(basePath, ext))
        okIndex(ext) == /\ fsExistsSync(IndexPath(basePath, ext))
                        /\ ~shouldExclude(IndexPath(basePath, ext))
        e == FirstIndex({i \in 1..Len(extensions) : okExt(extensions[i])})
        x == FirstIndex({i \in 1..Len(extensions) : okIndex(extensions[i])})
    IN  IF fsExistsSync(basePath) /\ ~shouldExclude(basePath)
           /\ isFile(basePath)
        THEN basePath
        ELSE IF e # 0 THEN WithExt(basePath, extensions[e])
        ELSE IF x # 0 THEN IndexPath(basePath, extensions[x])
        ELSE NoPath

\* ---- the strategies ---------------------------------------------------------
\* what can follow a prefix inside the first part of a specifier
Tails == {"", ".", "rary"}

\* part.startsWith(prefix), and what is left of the part after the prefix
StartsWith(part, prefix) == \E t \in Tails : part = prefix \o t
AfterPrefix(part, prefix) == CHOOSE t \in Tails : part = prefix \o t

Alias(key, target) == [alias |-> key, target |-> target]

\* the default of options.svelteAliases
DefaultSvelteAliases ==
    <<Alias("$lib", <<"src", "lib">>),
      Alias("$app", <<"@sveltejs", "kit">>),
      Alias("$env", <<"@sveltejs", "kit">>),
      Alias("$service-worker", <<"@sveltejs", "kit">>)>>

\* require.resolve(name): the main file of the installed module, null when
\* the lookup throws
requireResolve(name) ==
    IF name \in installed THEN NodeModules \o name \o <<"index.js">>
    ELSE NoPath

\* Object.keys(this.svelteAliases).some((alias) => importPath.startsWith(alias))
isSvelteAlias(importPath) ==
    /\ importPath # <<>>
    /\ \E i \in 1..Len(svelteAliases) :
          StartsWith(importPath[1], svelteAliases[i].alias)

\* resolveSvelteAlias(importPath): the first alias the specifier starts with
resolveSvelteAlias(importPath) ==
    LET i == FirstIndex({j \in 1..Len(svelteAliases) :
                            StartsWith(importPath[1], svelteAliases[j].alias)})
        target == svelteAliases[i].target
        rest == AfterPrefix(importPath[1], svelteAliases[i].alias)
    IN  IF i = 0 THEN NoPath
        ELSE IF IsPrefix(<<"@sveltejs", "kit">>, target)
        THEN IF includeExternal THEN requireResolve(target) ELSE NoPath
        ELSE tryResolveWithExtensions(
                 pathResolve(rootDir, WithExt(target, rest) \o Tail(importPath)))

ProjectPrefixes ==
    {"src", "app", "lib", "libs", "packages", "modules", "components",
     "services", "utils", "helpers", "shared", "core", "common", "config",
     "assets", "styles", "types", "interfaces", "models", "entities", "dtos",
     "guards", "middleware", "decorators", "pipes", "filters", "interceptors",
     "controllers", "providers", "repositories", "schemas"}

\* projectPrefixes.some((prefix) => importPath.startsWith(prefix)), every
\* prefix ending with the slash
isProjectAbsoluteImport(importPath) ==
    Len(importPath) >= 2 /\ importPath[1] \in ProjectPrefixes

possibleRoots ==
    <<rootDir,
      pathResolve(rootDir, <<"app">>),
      pathResolve(rootDir, <<"src">>),
      pathResolve(rootDir, <<"..">>),
      pathResolve(rootDir, <<"..", "app">>),
      Dirname(rootDir)>>

\* variant: the roots are tried from the last to the first
resolveProjectAbsoluteImport_LastRoot(importPath) ==
    LET found(root) ==
            /\ fsExistsSync(root)
            /\ tryResolveWithExtensions(pathResolve(root, importPath)) # NoPath
        S == {j \in 1..Len(possibleRoots) : found(possibleRoots[j])}
        i == IF S = {} THEN 0 ELSE CHOOSE j \in S : \A k \in S : k <= j
    IN  IF i = 0 THEN NoPath
        ELSE tryResolveWithExtensions(pathResolve(possibleRoots[i], importPath))

\* resolveProjectAbsoluteImport(importPath): the first root that exists and
\* under which the extension/index resolution finds something
resolveProjectAbsoluteImport(importPath) ==
    LET found(root) ==
            /\ fsExistsSync(root)
            /\ tryResolveWithExtensions(pathResolve(root, importPath)) # NoPath
        i == FirstIndex({j \in 1..Len(possibleRoots) : found(possibleRoots[j])})
    IN  IF i = 0 THEN NoPath
        ELSE tryResolveWithExtensions(pathResolve(possibleRoots[i], importPath))

\* importPath.startsWith(".") || importPath.startsWith("/")
isRelativeImport(importPath) ==
    /\ importPath # <<>>
    /\ (StartsWith(importPath[1], ".") \/ importPath[1] = "/")

\* resolveRelativeImport(importPath, fromFile)
resolveRelativeImport(importPath, fromFile) ==
    tryResolveWithExtensions(pathResolve(Dirname(fromFile), importPath))

\* the strategy that claims the specifier
StrategyOf(importPath) ==
    IF isSvelteAlias(importPath) THEN "alias"
    ELSE IF isProjectAbsoluteImport(importPath) THEN "project"
    ELSE IF isRelativeImport(importPath) THEN "relative"
    ELSE "external"

\* the last strategy: host module resolution, only with includeExternal
resolveExternal(importPath, fromFile) ==
    IF ~includeExternal THEN NoPath ELSE requireResolve(importPath)

\* variant: a strategy that finds nothing hands the specifier to the next
resolveImportPathOnDisk_Fallthrough(importPath, fromFile) ==
    LET a == IF isSvelteAlias(importPath)
             THEN resolveSvelteAlias(importPath) ELSE NoPath
        b == IF isProjectAbsoluteImport(importPath)
             THEN resolveProjectAbsoluteImport(importPath) ELSE NoPath
        c == IF isRelativeImport(importPath)
             THEN resolveRelativeImport(importPath, fromFile) ELSE NoPath
    IN  IF a # NoPath THEN a
        ELSE IF b # NoPath THEN b
        ELSE IF c # NoPath THEN c
        ELSE resolveExternal(importPath, fromFile)

\* resolveImportPath(importPath, fromFile) on the disk: the first strategy
\* whose test matches returns, found or not
resolveImportPathOnDisk(importPath, fromFile) ==
    IF isSvelteAlias(importPath) THEN resolveSvelteAlias(importPath)
    ELSE IF isProjectAbsoluteImport(importPath)
    THEN resolveProjectAbsoluteImport(importPath)
    ELSE IF isRelativeImport(importPath)
    THEN resolveRelativeImport(importPath, fromFile)
    ELSE resolveExternal(importPath, fromFile)

\* ---- the disks, the options and the calls of ResolverSpec -----------------
\* the files that import
Origins == {ProjectDir \o <<"src", "lib", "a.ts">>, ProjectDir \o <<"src", "b.ts">>}

\* the specifiers that are resolved
Specifiers ==
    {<<"$lib", "x">>, <<"$library", "x">>, <<"$app", "navigation">>,
     <<"src", "lib", "x">>, <<".", "x">>, <<".", "x.test">>,
     <<"/", "p", "R", "src", "lib", "x">>, <<"pkg">>}

LibX == ProjectDir \o <<"src", "lib", "x">>

\* what a disk can hold besides the importing files: the candidates of the
\* specifiers above, as files and some of them as directories
DiskEntries ==
    {<<LibX, "file">>, <<LibX, "dir">>,
     <<WithExt(LibX, ".ts"), "file">>, <<WithExt(LibX, ".ts"), "dir">>,
     <<WithExt(LibX, ".js"), "file">>,
     <<IndexPath(LibX, ".ts"), "file">>, <<IndexPath(LibX, ".js"), "file">>,
     <<WithExt(LibX, ".test.ts"), "file">>, <<WithExt(LibX, ".test.js"), "file">>,
     <<ProjectDir \o <<"app", "src", "lib", "x.ts">>, "file">>,
     <<ProjectDir \o <<"src", "src", "lib", "x.ts">>, "file">>,
     <<<<"p", "src", "lib", "x.ts">>, "file">>,
     <<ProjectDir \o <<"src", "library", "x.ts">>, "file">>}

\* a set of entries is a disk when no path is there twice and nothing lies
\* below a file
IsDisk(D) ==
    \A d, e \in D :
       /\ d[1] = e[1] => d = e
       /\ (d # e /\ IsPrefix(d[1], e[1])) => d[2] = "dir"

\* the disk with the entries D and the importing files
DiskOf(D) ==
    [q \in {d[1] : d \in D} \cup Origins |->
        IF q \in Origins THEN "file"
        ELSE (CHOOSE d \in D : d[1] = q)[2]]

\* the modules the host can have installed
Modules ==
    {<<"pkg">>, <<"@sveltejs", "kit">>, <<"src", "lib", "x">>, <<"$lib", "x">>}

\* options.extensions, options.excludePatterns, options.svelteAliases
ExtensionLists == {<<".ts", ".js">>, <<".js", ".ts">>}
ExcludePatternSets == {DefaultExcludePatterns, {Suffix(".test.ts")}}
AliasTables ==
    {DefaultSvelteAliases,
     <<Alias("$lib", <<"src", "lib">>)>>,
     <<Alias("src", <<"app", "src">>)>>}

\* no traversal is going on
GraphIdle ==
    /\ imports = <<>>
    /\ fileAttrs = <<>>
    /\ maxDepth = Infinity
    /\ visited = <<>>
    /\ circularDeps = {}
    /\ allFiles = <<>>
    /\ unresolved = {}
    /\ stack = <<>>
    /\ tree = <<>>
    /\ pc = "idle"
    /\ runs = 0
    /\ roots = <<>>
    /\ fileKinds = {TextFile}
    /\ bare = {}

\* new DependencyExtractor(options) with rootDir the project directory, on
\* some disk
ResolverInit ==
    /\ GraphIdle
    /\ ParserIdle
    /\ EditorIdle
    /\ includeExternal \in BOOLEAN
    /\ \E D \in SUBSET DiskEntries :
          /\ Cardinality(D) <= MaxDiskEntries
          /\ IsDisk(D)
          /\ disk = DiskOf(D)
    /\ installed \in {{}, Modules}
    /\ cwd = ProjectDir
    /\ rootOption = ProjectDir
    /\ rootDir = ProjectDir
    /\ excludePatterns \in ExcludePatternSets
    /\ svelteAliases \in AliasTables
    /\ extensions \in ExtensionLists
    /\ call = <<>>

\* one call of resolveImportPath.  It reads the disk and the options and
\* writes nothing, so every call is the first call of some behaviour.
ResolveImport(importPath, fromFile) ==
    /\ call = <<>>
    /\ call' = <<[importPath |-> importPath, fromFile |-> fromFile,
                  resolved |-> resolveImportPathOnDisk(importPath, fromFile)]>>
    /\ UNCHANGED <<graphVars, envVars, includeExternal, disk, installed, cwd,
                   rootOption, rootDir, excludePatterns, svelteAliases,
                   extensions,
                   parserVars, editorVars>>

ResolverNext ==
    \E importPath \in Specifiers, fromFile \in Origins :
       ResolveImport(importPath, fromFile)

ResolverSpec == ResolverInit /\ [][ResolverNext]_vars

\* ---- properties of the resolver -------------------------------------------
Called == call # <<>>
Request == call[1]

\* resolveImportPath was called for "$lib/x" with the alias $lib -> src/lib
\* configured and ".ts" the first extension
LibXRequested ==
    /\ Called
    /\ Request.importPath = <<"$lib", "x">>
    /\ svelteAliases[1] = Alias("$lib", <<"src", "lib">>)
    /\ rootDir = ProjectDir
    /\ extensions[1] = ".ts"

\* C12, as claimed: "$lib/x" resolves, from every origin file, to
\* R/src/lib/x.ts when that file exists, to R/src/lib/x/index.ts when of the
\* two only the index file exists, and to null when neither exists.
C12_AliasLibX ==
    LibXRequested =>
        /\ isFile(WithExt(LibX, ".ts"))
              => Request.resolved = WithExt(LibX, ".ts")
        /\ (~fsExistsSync(WithExt(LibX, ".ts")) /\ isFile(IndexPath(LibX, ".ts")))
              => Request.resolved = IndexPath(LibX, ".ts")
        /\ (~fsExistsSync(WithExt(LibX, ".ts"))
            /\ ~fsExistsSync(IndexPath(LibX, ".ts")))
              => Request.resolved = NoPath

\* C12, amended: "$lib/x" resolves, from every origin file, to R/src/lib/x
\* itself when a regular file is at that exact path; otherwise to
\* R/src/lib/x.ts when that exists; otherwise to R/src/lib/x/index.ts when
\* that exists and no R/src/lib/x.<ext> exists for a configured extension;
\* and to null when none of R/src/lib/x (as a file), R/src/lib/x.<ext> and
\* R/src/lib/x/index.<ext> exists.
C12_AliasLibXCandidates ==
    LibXRequested =>
        LET anyExt == \E i \in 1..Len(extensions) :
                         fsExistsSync(WithExt(LibX, extensions[i]))
            anyIndex == \E i \in 1..Len(extensions) :
                           fsExistsSync(IndexPath(LibX, extensions[i]))
        IN  /\ isFile(LibX) => Request.resolved = LibX
            /\ (~isFile(LibX) /\ fsExistsSync(WithExt(LibX, ".ts")))
                  => Request.resolved = WithExt(LibX, ".ts")
            /\ (~isFile(LibX) /\ ~anyExt /\ fsExistsSync(IndexPath(LibX, ".ts")))
                  => Request.resolved = IndexPath(LibX, ".ts")
            /\ (~isFile(LibX) /\ ~anyExt /\ ~anyIndex)
                  => Request.resolved = NoPath

C12_Witness ==
    /\ LibXRequested
    /\ Request.fromFile = ProjectDir \o <<"src", "b.ts">>
    /\ isFile(WithExt(LibX, ".ts"))
    /\ isFile(IndexPath(LibX, ".ts"))
    /\ Request.resolved = WithExt(LibX, ".ts")

\* the path matches one of the configured exclude patterns
IsExcluded(q) == \E pattern \in excludePatterns : Matches(pattern, q)

\* the base paths that the strategy claiming the specifier constructs
BasePaths(importPath, fromFile) ==
    IF StrategyOf(importPath) = "alias"
    THEN LET i == FirstIndex({j \in 1..Len(svelteAliases) :
                         StartsWith(importPath[1], svelteAliases[j].alias)})
         IN  IF IsPrefix(<<"@sveltejs", "kit">>, svelteAliases[i].target)
             THEN <<>>
             ELSE <<pathResolve(rootDir,
                        WithExt(svelteAliases[i].target,
                                AfterPrefix(importPath[1], svelteAliases[i].alias))
                        \o Tail(importPath))>>
    ELSE IF StrategyOf(importPath) = "project"
    THEN [i \in 1..Len(possibleRoots) |-> pathResolve(possibleRoots[i], importPath)]
    ELSE IF StrategyOf(importPath) = "relative"
    THEN <<pathResolve(Dirname(fromFile), importPath)>>
    ELSE <<>>

\* the candidates of one base path, in the order in which they are tried
CandidatesOf(basePath) ==
    <<basePath>>
    \o [i \in 1..Len(extensions) |-> WithExt(basePath, extensions[i])]
    \o [i \in 1..Len(extensions) |-> IndexPath(basePath, extensions[i])]

\* all candidates of a call, base after base
RECURSIVE Flatten(_)
Flatten(ss) == IF ss = <<>> THEN <<>> ELSE Head(ss) \o Flatten(Tail(ss))

AllCandidates(importPath, fromFile) ==
    LET bs == BasePaths(importPath, fromFile)
    IN  Flatten([i \in 1..Len(bs) |-> CandidatesOf(bs[i])])

\* candidate k of the call is on disk in the way its place asks for: a
\* regular file for a base path itself, anything for the others
CandidatePresent(importPath, fromFile, k) ==
    LET cs == AllCandidates(importPath, fromFile)
        exact == (k - 1) % (1 + 2 * Len(extensions)) = 0
    IN  IF exact THEN isFile(cs[k]) ELSE fsExistsSync(cs[k])

\* the target that path construction alone leads to: the first candidate
\* that is on disk, whether excluded or not (0: there is none)
ConstructedTarget(importPath, fromFile) ==
    FirstIndex({k \in 1..Len(AllCandidates(importPath, fromFile)) :
                   CandidatePresent(importPath, fromFile, k)})

\* a call whose constructed target is on disk and matches an exclude pattern
ExcludedTargetRequested ==
    /\ Called
    /\ StrategyOf(Request.importPath) \in {"alias", "project", "relative"}
    /\ ConstructedTarget(Request.importPath, Request.fromFile) # 0
    /\ IsExcluded(AllCandidates(Request.importPath, Request.fromFile)
                     [ConstructedTarget(Request.importPath, Request.fromFile)])

\* C13, as claimed: a specifier whose constructed target is a file on disk
\* that matches an exclude pattern resolves to null; no other candidate is
\* returned in its place.
C13_ExcludedTargetIsNull ==
    ExcludedTargetRequested => Request.resolved = NoPath

\* C13, amended: such a specifier never resolves to the excluded file nor to
\* any path matching an exclude pattern; the excluded candidate counts as
\* absent and the later candidates are tried, so the result is the first
\* candidate on disk that matches no exclude pattern, and null only when
\* there is none.
C13_ExcludedTargetIsSkipped ==
    ExcludedTargetRequested =>
        LET cs == AllCandidates(Request.importPath, Request.fromFile)
            ok == {k \in 1..Len(cs) :
                     /\ CandidatePresent(Request.importPath, Request.fromFile, k)
                     /\ ~IsExcluded(cs[k])}
        IN  /\ Request.resolved # cs[ConstructedTarget(Request.importPath,
                                                      Request.fromFile)]
            /\ ~IsExcluded(Request.resolved)
            /\ IF ok = {} THEN Request.resolved = NoPath
               ELSE Request.resolved = cs[FirstIndex(ok)]

C13_Witness ==
    /\ ExcludedTargetRequested
    /\ Request.importPath = <<".", "x.test">>
    /\ isFile(WithExt(LibX, ".test.ts"))
    /\ Request.resolved = WithExt(LibX, ".test.js")

\* the specifier starts with an alias whose target is a SvelteKit built-in
IsBuiltinAlias(importPath) ==
    /\ isSvelteAlias(importPath)
    /\ BasePaths(importPath, <<>>) = <<>>

\* C17: the strategies are tried in the order alias, project-absolute prefix,
\* relative, external, and the first whose test matches decides alone.  A
\* specifier claimed by one of the first three resolves to its first
\* candidate on disk that is not excluded and to null when there is none,
\* also when the host could resolve the specifier as a module and external
\* inclusion is on; an alias of a built-in resolves to the host's lookup of
\* the alias target with external inclusion on and to null with it off; only
\* a specifier that no earlier test matches goes to the host's lookup.
C17_FirstStrategyDecides ==
    Called =>
        LET ip == Request.importPath
            cs == AllCandidates(ip, Request.fromFile)
            ok == {k \in 1..Len(cs) :
                     /\ CandidatePresent(ip, Request.fromFile, k)
                     /\ ~IsExcluded(cs[k])}
            st == IF \E i \in 1..Len(svelteAliases) :
                        StartsWith(ip[1], svelteAliases[i].alias)
                  THEN "alias"
                  ELSE IF Len(ip) >= 2 /\ ip[1] \in ProjectPrefixes
                  THEN "project"
                  ELSE IF ip[1] \in {".", "..", "/"} THEN "relative"
                  ELSE "external"
        IN  /\ StrategyOf(ip) = st
            /\ IF st = "external"
               THEN Request.resolved =
                       (IF includeExternal THEN requireResolve(ip) ELSE NoPath)
               ELSE IF IsBuiltinAlias(ip)
               THEN Request.resolved =
                       (IF includeExternal
                        THEN requireResolve(<<"@sveltejs", "kit">>)
                        ELSE NoPath)
               ELSE /\ Request.resolved =
                          (IF ok = {} THEN NoPath ELSE cs[FirstIndex(ok)])
                    /\ requireResolve(ip) # NoPath
                          => Request.resolved # requireResolve(ip)

C17_Witness ==
    /\ Called
    /\ Request.importPath = <<"src", "lib", "x">>
    /\ StrategyOf(Request.importPath) = "project"
    /\ includeExternal
    /\ requireResolve(Request.importPath) # NoPath
    /\ Request.resolved = NoPath

\* C20, as claimed: under every configuration and for every strategy the
\* resolver returns no path that matches one of the exclude patterns.
C20_NeverReturnsExcluded ==
    Called => ~IsExcluded(Request.resolved)

\* ==== the project root (RootSpec) ==========================================
\* the empty string as a directory: what join yields for the parts [""]
EmptyString == <<"(empty)">>

\* options.rootDir || process.cwd(), NoPath standing for an option not given
ConstructorRootDir(option) == IF option = NoPath THEN cwd ELSE option

Indicators ==
    {"package.json", "svelte.config.js", "vite.config.js", "tsconfig.json",
     "angular.json", "next.config.js", "webpack.config.js", ".git",
     "yarn.lock", "package-lock.json"}

\* pathParts.slice(0, n + 1).join(path.sep) for the first n segments of p
\* (pathParts[0] is the empty part before the leading slash)
JoinParts(p, n) == IF n <= 0 THEN EmptyString ELSE SubSeq(p, 1, n)

\* the directories the while loop tests: currentDir from the directory of the
\* file upwards, as long as currentDir !== path.dirname(currentDir)
WalkedDirs(resolvedFilePath) ==
    {SubSeq(resolvedFilePath, 1, k) : k \in 1..(Len(resolvedFilePath) - 1)}

HasIndicator(dir) ==
    \E indicator \in Indicators : fsExistsSync(Append(dir, indicator))

\* variant: the walk tests the directories from the top down
autoDetectProjectRoot_Topmost(resolvedFilePath) ==
    LET marked == {d \in WalkedDirs(resolvedFilePath) : HasIndicator(d)}
        srcIndex == FirstIndex({k \in 1..Len(resolvedFilePath) :
                                   resolvedFilePath[k] = "src"})
        appIndex == FirstIndex({k \in 1..Len(resolvedFilePath) :
                                   resolvedFilePath[k] = "app"})
        routesIndex == FirstIndex({k \in 1..Len(resolvedFilePath) :
                                      resolvedFilePath[k] = "routes"})
    IN  IF marked # {}
        THEN CHOOSE d \in marked : \A e \in marked : Len(d) <= Len(e)
        ELSE IF srcIndex > 0 THEN JoinParts(resolvedFilePath, srcIndex - 1)
        ELSE IF appIndex > 0 THEN JoinParts(resolvedFilePath, appIndex)
        ELSE IF routesIndex > 1 THEN JoinParts(resolvedFilePath, routesIndex - 2)
        ELSE rootDir

\* autoDetectProjectRoot(filePath), by the value it leaves in this.rootDir:
\* the nearest walked directory holding an indicator, else the inference from
\* the first 'src', 'app' or 'routes' part of the path, else no change
autoDetectProjectRoot(resolvedFilePath) ==
    LET marked == {d \in WalkedDirs(resolvedFilePath) : HasIndicator(d)}
        srcIndex == FirstIndex({k \in 1..Len(resolvedFilePath) :
                                   resolvedFilePath[k] = "src"})
        appIndex == FirstIndex({k \in 1..Len(resolvedFilePath) :
                                   resolvedFilePath[k] = "app"})
        routesIndex == FirstIndex({k \in 1..Len(resolvedFilePath) :
                                      resolvedFilePath[k] = "routes"})
    IN  IF marked # {}
        THEN CHOOSE d \in marked : \A e \in marked : Len(e) <= Len(d)
        ELSE IF srcIndex > 0 THEN JoinParts(resolvedFilePath, srcIndex - 1)
        ELSE IF appIndex > 0 THEN JoinParts(resolvedFilePath, appIndex)
        ELSE IF routesIndex > 1 THEN JoinParts(resolvedFilePath, routesIndex - 2)
        ELSE rootDir

\* if (!this.rootDir || this.rootDir === process.cwd())
NeedsDetection == rootDir = EmptyString \/ rootDir = cwd

\* ---- the disks, the options and the calls of RootSpec ---------------------
\* the files that are analyzed
StartFiles ==
    {<<"p", "R", "src", "lib", "a.ts">>, <<"p", "R", "app", "b.ts">>,
     <<"p", "R", "web", "routes", "c.ts">>, <<"p", "R", "d.ts">>,
     <<"src", "e.ts">>, <<"f.ts">>}

\* the indicator files and directories a disk can hold
IndicatorEntries ==
    {<<<<"package.json">>, "file">>,
     <<<<"p", "package.json">>, "file">>,
     <<<<"p", "R", "package.json">>, "file">>,
     <<<<"p", "R", ".git">>, "dir">>,
     <<<<"p", "R", "src", "tsconfig.json">>, "file">>,
     <<<<"p", "R", "web", "yarn.lock">>, "file">>}

WorkingDirs == {<<"p">>, <<"p", "R">>}
RootOptions == {NoPath, <<"p">>, <<"p", "R", "web">>}

\* new DependencyExtractor(options) in some working directory, on some disk
RootInit ==
    /\ GraphIdle
    /\ ParserIdle
    /\ EditorIdle
    /\ includeExternal = FALSE
    /\ \E D \in SUBSET IndicatorEntries :
          /\ Cardinality(D) <= MaxDiskEntries
          /\ disk = [q \in {d[1] : d \in D} \cup StartFiles |->
                       IF q \in StartFiles THEN "file"
                       ELSE (CHOOSE d \in D : d[1] = q)[2]]
    /\ installed = {}
    /\ cwd \in WorkingDirs
    /\ rootOption \in RootOptions
    /\ rootDir = ConstructorRootDir(rootOption)
    /\ excludePatterns = DefaultExcludePatterns
    /\ svelteAliases = DefaultSvelteAliases
    /\ extensions = <<".ts", ".js">>
    /\ call = <<>>

\* the head of analyze(filePath): the root directory is detected when it is
\* empty or equal to the working directory
DetectRoot(filePath) ==
    /\ Len(call) < MaxRuns
    /\ rootDir' = IF NeedsDetection THEN autoDetectProjectRoot(filePath)
                  ELSE rootDir
    /\ call' = Append(call, [filePath |-> filePath, detected |-> NeedsDetection,
                             before |-> rootDir])
    /\ UNCHANGED <<graphVars, envVars, includeExternal, disk, installed, cwd,
                   rootOption, excludePatterns, svelteAliases, extensions,
                   parserVars, editorVars>>

RootNext == \E filePath \in StartFiles : DetectRoot(filePath)

RootSpec == RootInit /\ [][RootNext]_vars

\* ---- properties of the root detection -------------------------------------
LastCall == call[Len(call)]

\* C18, as claimed: a root directory that was configured explicitly is the
\* root directory of every analyze call; detection replaces the root only
\* when none was configured.
C18_ConfiguredRootKept ==
    rootOption # NoPath => rootDir = rootOption

\* all ancestor directories of a file, from its own directory up to "/"
AncestorDirs(f) == {SubSeq(f, 1, k) : k \in 0..(Len(f) - 1)}

\* C19, as claimed, for the first analyze call of an instance without a
\* configured root: the root is the nearest ancestor directory of the start
\* file (its own directory first) that holds a marker; only when no ancestor
\* holds one, the root inferred from the first 'src' part (its parent), else
\* from the first 'app' part (that directory), else from the first 'routes'
\* part (two levels above it); and the working directory when neither
\* succeeds.
C19_NearestMarkedAncestor ==
    (Len(call) = 1 /\ rootOption = NoPath) =>
        LET f == LastCall.filePath
            marked == {d \in AncestorDirs(f) :
                         \E m \in Indicators : fsExistsSync(Append(d, m))}
            src == {k \in 1..Len(f) : f[k] = "src"}
            app == {k \in 1..Len(f) : f[k] = "app"}
            routes == {k \in 1..Len(f) : f[k] = "routes"}
        IN  IF marked # {}
            THEN \A e \in marked : Len(e) <= Len(rootDir) /\ rootDir \in marked
            ELSE IF src # {}
            THEN rootDir = JoinParts(f, FirstIndex(src) - 1)
            ELSE IF app # {}
            THEN rootDir = JoinParts(f, FirstIndex(app))
            ELSE IF FirstIndex(routes) > 1
            THEN rootDir = JoinParts(f, FirstIndex(routes) - 2)
            ELSE rootDir = cwd

\* C19, amended, for the first analyze call of an instance without a
\* configured root: the root is the nearest directory holding a marker among
\* the directory of the start file and its ancestors below the filesystem
\* root "/", which itself is never tested; only when none of these holds a
\* marker, the root is inferred from the first 'src' part of the path (the
\* path before it), else from the first 'app' part (the path up to and
\* including it), else from the first 'routes' part that is not the first
\* part (the path two levels above it); and it stays the working directory
\* when neither succeeds.
C19_NearestMarkedBelowRoot ==
    (Len(call) = 1 /\ rootOption = NoPath) =>
        LET f == LastCall.filePath
            marked == {d \in AncestorDirs(f) \ {<<>>} :
                         \E m \in Indicators : fsExistsSync(Append(d, m))}
            src == {k \in 1..Len(f) : f[k] = "src"}
            app == {k \in 1..Len(f) : f[k] = "app"}
            routes == {k \in 1..Len(f) : f[k] = "routes"}
        IN  /\ LastCall.detected
            /\ IF marked # {}
               THEN \A e \in marked : Len(e) <= Len(rootDir) /\ rootDir \in marked
               ELSE IF src # {}
               THEN rootDir = JoinParts(f, FirstIndex(src) - 1)
               ELSE IF app # {}
               THEN rootDir = JoinParts(f, FirstIndex(app))
               ELSE IF FirstIndex(routes) > 1
               THEN rootDir = JoinParts(f, FirstIndex(routes) - 2)
               ELSE rootDir = cwd

C19_Witness ==
    /\ Len(call) = 1
    /\ rootOption = NoPath
    /\ cwd = <<"p">>
    /\ LastCall.filePath = <<"p", "R", "src", "lib", "a.ts">>
    /\ fsExistsSync(<<"p", "package.json">>)
    /\ fsExistsSync(<<"p", "R", "package.json">>)
    /\ rootDir = <<"p", "R">>

\* ---- extension / index resolution and the project bases -------------------
\* a call that goes through the relative strategy: the extension/index
\* resolution of the one base path dirname(fromFile)/importPath
RelativeRequested == Called /\ StrategyOf(Request.importPath) = "relative"

\* C21: the extension/index resolution of a base path returns the first of
\* the candidates base, base+ext (configured order), base/index+ext
\* (configured order) that exists, is a regular file and is not excluded, and
\* null when there is none; so it never returns the path of a directory.
C21_FirstRegularFileCandidate ==
    RelativeRequested =>
        LET cs == CandidatesOf(pathResolve(Dirname(Request.fromFile),
                                           Request.importPath))
            ok == {k \in 1..Len(cs) : isFile(cs[k]) /\ ~IsExcluded(cs[k])}
        IN  /\ Request.resolved # NoPath => isFile(Request.resolved)
            /\ IF ok = {} THEN Request.resolved = NoPath
               ELSE Request.resolved = cs[FirstIndex(ok)]

\* the five candidate bases in the claimed order
ClaimedBases ==
    <<rootDir, Append(rootDir, "app"), Append(rootDir, "src"),
      Dirname(rootDir), Append(Dirname(rootDir), "app")>>

\* the candidates of the base path that qualify, as the extension/index
\* resolution tests them
Qualifying(basePath) ==
    LET cs == CandidatesOf(basePath)
    IN  {k \in 1..Len(cs) :
           /\ ~IsExcluded(cs[k])
           /\ IF k = 1 THEN isFile(cs[k]) ELSE fsExistsSync(cs[k])}

ProjectRequested == Called /\ StrategyOf(Request.importPath) = "project"

IndexOf(s, x) == CHOOSE i \in 1..Len(s) : s[i] = x

\* the children present at pos come from the imports of file p in the order
\* of extraction, each from one of the first n imports
ChildrenInImportOrder(pos, p, n) ==
    \A c \in Children(pos) :
       /\ \E i \in 1..n : imports[p][i] = NodeAt(c).originalImport
       /\ \A e \in Children(pos) :
             c[Len(c)] < e[Len(e)]
                => IndexOf(imports[p], NodeAt(c).originalImport)
                      < IndexOf(imports[p], NodeAt(e).originalImport)

\* the subtree at position pos is built completely and its files are in the
\* visited table
SubtreeComplete(pos) ==
    \A q \in DOMAIN tree :
       IsPrefix(pos, q) =>
          /\ NodeAt(q).ndeps = Cardinality(Children(q))
          /\ \A k \in 1..NodeAt(q).ndeps : Append(q, k) \in DOMAIN tree
          /\ NodeAt(q).exists => NodeAt(q).absolutePath \in DOMAIN visited

\* C23: traversal is depth-first pre-order.  The children of every node are
\* in the extraction order of their import specifiers; and whenever a call
\* is about to resolve its next import, the subtrees of all its earlier
\* imports are complete, with all their files in the visited table, no node
\* of a later import exists, and the call that is active below another is
\* building the position of that one's current import.
C23_DepthFirstPreOrder ==
    /\ \A pos \in DOMAIN tree :
          NodeAt(pos).exists =>
             ChildrenInImportOrder(pos, NodeAt(pos).absolutePath,
                                   Len(imports[NodeAt(pos).absolutePath]))
    /\ \A j \in 1..Len(stack) :
          /\ ChildrenInImportOrder(stack[j].pos, stack[j].path, stack[j].i - 1)
          /\ Children(stack[j].pos)
                = {Append(stack[j].pos, k) : k \in 1..stack[j].ndeps}
          /\ \A c \in Children(stack[j].pos) : SubtreeComplete(c)
          /\ j < Len(stack) =>
                /\ stack[j + 1].pos = Append(stack[j].pos, stack[j].ndeps + 1)
                /\ stack[j + 1].originalImport
                      = imports[stack[j].path][stack[j].i - 1]

\* the root is about to resolve its second import while the subtree of the
\* first, two levels deep, is complete
C23_Witness ==
    /\ HasImport
    /\ Len(stack) = 1
    /\ Top.i = 2
    /\ Top.ndeps = 1
    /\ NodeAt(<<1>>).exists
    /\ NodeAt(<<1>>).ndeps = 1
    /\ <<1, 1>> \in DOMAIN tree
    /\ NodeAt(<<1, 1>>).exists

\* the next import of the active call resolves to a file that is in the
\* visited table at a depth greater than that of the position being created
DeeperVisitedEdge ==
    /\ HasImport
    /\ ResolvedImport # Null
    /\ ResolvedImport \in DOMAIN visited
    /\ visited[ResolvedImport].depth > Top.depth + 1

C25_EveryNodeRegistered ==
    (runs >= 1 /\ pc = "done") =>
        \A pos \in DOMAIN tree : NodeAt(pos).absolutePath \in DOMAIN allFiles

\* ---- parseImports -----------------------------------------------------------
MaxTextLines == 2
MaxStmts == 2

\* an import statement as it stands in a line: its syntactic shape and the
\* text between its quotes
Stmt(shape, spec) == [shape |-> shape, spec |-> spec]

\* import x from "p" | import type x from "p" | import "p" | import("p") |
\* export x from "p" | const x = require("p") | require("p")
Shapes ==
    {"es6", "type", "side", "dynamic", "reexport", "cjsassign", "require"}

\* the patterns of extractImportsFromLine in their order, each with the
\* shapes its regular expression matches: the ES6 pattern also matches a
\* type import, the direct require also matches a require with assignment
PatternShapes ==
    <<{"es6", "type"}, {"type"}, {"side"}, {"dynamic"}, {"reexport"},
      {"cjsassign"}, {"cjsassign", "require"}>>

\* a specifier isValidImportPath rejects: it starts with "http"
InvalidSpecifiers == {"http://c/x.js"}

isValidImportPath(importPath) == importPath \notin InvalidSpecifiers

\* a line of the text: how it starts after trim(), the import statements in
\* it from left to right, and whether it stands between <script> tags
Line(lead, stmts, script) == [lead |-> lead, stmts |-> stmts, script |-> script]

\* if (!line || line.startsWith("//") || line.startsWith("/*") ||
\*     line.startsWith("*")) continue
SkippedLeads == {"", "//", "/*", "*"}

\* fileName.endsWith(".svelte")
FileNames == {"a.ts", "A.svelte"}
IsSvelte(fileName) == fileName = "A.svelte"

\* extractScriptFromSvelte(content): what stands between script tags, the
\* whole content when there is no script tag
extractScriptFromSvelte(content) ==
    LET inScript(l) == l.script
    IN  IF \E i \in 1..Len(content) : content[i].script
        THEN SelectSeq(content, inScript)
        ELSE content

\* extractImportsFromLine(line): pattern after pattern, for each pattern its
\* matches from left to right, the valid specifiers pushed
extractImportsFromLine(line) ==
    LET matches(p) ==
            LET hit(st) == st.shape \in PatternShapes[p]
                              /\ isValidImportPath(st.spec)
                m == SelectSeq(line.stmts, hit)
            IN  [i \in 1..Len(m) |-> m[i].spec]
    IN  Flatten([p \in 1..Len(PatternShapes) |-> matches(p)])

\* variant: adding a member again moves it to the end
SetAdd_MoveToEnd(set, x) ==
    LET other(y) == y # x
    IN  Append(SelectSeq(set, other), x)

\* Set.prototype.add on a Set kept in insertion order
SetAdd(set, x) ==
    IF \E i \in 1..Len(set) : set[i] = x THEN set ELSE Append(set, x)

\* lineImports.forEach((imp) => imports.add(imp))
RECURSIVE AddAll(_, _)
AddAll(set, xs) ==
    IF xs = <<>> THEN set ELSE AddAll(SetAdd(set, Head(xs)), Tail(xs))

\* the loop over the lines
RECURSIVE ScanLines(_, _)
ScanLines(set, lines) ==
    IF lines = <<>> THEN set
    ELSE ScanLines(IF Head(lines).lead \in SkippedLeads THEN set
                   ELSE AddAll(set, extractImportsFromLine(Head(lines))),
                   Tail(lines))

\* parseImports(content, fileName)
parseImports(content, fileName) ==
    IF content = <<>> THEN <<>>
    ELSE ScanLines(<<>>, IF IsSvelte(fileName)
                         THEN extractScriptFromSvelte(content)
                         ELSE content)

\* ---- the texts and the calls of ParseSpec -----------------------------------
\* the statements a text can hold: every shape with the specifier "./a", an
\* ES6 import of "./b", and an ES6 import of the invalid specifier
Statements ==
    {Stmt(sh, "./a") : sh \in Shapes}
    \cup {Stmt("es6", "./b")}
    \cup {Stmt("es6", sp) : sp \in InvalidSpecifiers}

\* the lines with exactly k statements; a skipped line holds an import that
\* must not be extracted
TextLines(k) ==
    {Line("code", st, sc) : st \in [1..k -> Statements], sc \in BOOLEAN}
    \cup (IF k = 1
          THEN {Line(ld, <<Stmt("es6", "./a")>>, FALSE) :
                   ld \in SkippedLeads \ {""}}
          ELSE IF k = 0 THEN {Line("", <<>>, FALSE)} ELSE {})

\* the texts whose i-th line holds counts[i] statements
RECURSIVE Texts(_)
Texts(counts) ==
    IF counts = <<>> THEN {<<>>}
    ELSE {<<l>> \o t : l \in TextLines(Head(counts)), t \in Texts(Tail(counts))}

\* the number of statements in a text with these counts
RECURSIVE Sum(_)
Sum(counts) == IF counts = <<>> THEN 0 ELSE Head(counts) + Sum(Tail(counts))

ParseInit ==
    /\ GraphIdle
    /\ includeExternal = FALSE
    /\ ResolverIdle
    /\ EditorIdle
    /\ \E n \in 0..MaxTextLines :
       \E counts \in [1..n -> 0..MaxStmts] :
          /\ Sum(counts) <= MaxStmts
          /\ sourceText \in Texts(counts)
    /\ parsed = <<>>

\* one call of parseImports.  It reads its arguments only, so every call is
\* the first call of some behaviour.
ParseImports(fileName) ==
    /\ parsed = <<>>
    /\ parsed' = <<[fileName |-> fileName,
                    imports |-> parseImports(sourceText, fileName)]>>
    /\ UNCHANGED <<graphVars, envVars, includeExternal, resolverVars,
                   sourceText, editorVars>>

ParseNext == \E fileName \in FileNames : ParseImports(fileName)

ParseSpec == ParseInit /\ [][ParseNext]_vars

\* ---- properties of parseImports ---------------------------------------------
Parsed == parsed # <<>>

\* the lines the patterns are run on
ScannedText ==
    LET t == IF IsSvelte(parsed[1].fileName)
                /\ \E i \in 1..Len(sourceText) : sourceText[i].script
             THEN {i \in 1..Len(sourceText) : sourceText[i].script}
             ELSE 1..Len(sourceText)
    IN  {i \in t : sourceText[i].lead \notin SkippedLeads}

\* the matches of specifier x: <<line, pattern, place in the line>>
MatchesOf(x) ==
    {<<i, p, k>> \in ScannedText \X (1..Len(PatternShapes)) \X (1..MaxStmts + 1) :
        /\ k <= Len(sourceText[i].stmts)
        /\ sourceText[i].stmts[k].spec = x
        /\ sourceText[i].stmts[k].shape \in PatternShapes[p]
        /\ x \notin InvalidSpecifiers}

\* match a comes before match b: line by line, within a line pattern by
\* pattern, within a pattern from left to right
Before(a, b) ==
    \/ a[1] < b[1]
    \/ a[1] = b[1] /\ a[2] < b[2]
    \/ a[1] = b[1] /\ a[2] = b[2] /\ a[3] < b[3]

FirstMatch(x) == CHOOSE a \in MatchesOf(x) : \A b \in MatchesOf(x) : a = b \/ Before(a, b)

\* C26: the list parseImports returns holds no specifier twice, holds
\* exactly the specifiers that were matched, in the order of their first
\* matches (line by line, within a line in the order of the patterns), and
\* is empty for empty content.
C26_DedupedInFirstSeenOrder ==
    Parsed =>
        LET r == parsed[1].imports
        IN  /\ \A i, j \in 1..Len(r) : i # j => r[i] # r[j]
            /\ \A x \in {"./a", "./b"} \cup InvalidSpecifiers :
                  (MatchesOf(x) # {}) <=> (\E i \in 1..Len(r) : r[i] = x)
            /\ \A i, j \in 1..Len(r) :
                  i < j => Before(FirstMatch(r[i]), FirstMatch(r[j]))
            /\ sourceText = <<>> => r = <<>>

\* "./a" is matched in the first line and again after "./b" in the second
C26_Witness ==
    /\ Parsed
    /\ Len(sourceText) = 2
    /\ MatchesOf("./a") # {}
    /\ \E a, c \in MatchesOf("./a") : \E b \in MatchesOf("./b") :
          Before(a, b) /\ Before(b, c)
    /\ parsed[1].imports = <<"./a", "./b">>

\* ---- LineTrackingEditor ---------------------------------------------------
MaxLines == 3
MaxEdits == 2

\* the newline character; every other character is a positive number
NL == 0

\* the one file that is edited
FilePath == "f"

\* lines.join("\n")
RECURSIVE Join(_)
Join(lines) ==
    IF lines = <<>> THEN <<>>
    ELSE IF Len(lines) = 1 THEN lines[1]
    ELSE lines[1] \o <<NL>> \o Join(Tail(lines))

\* content.split("\n"): at least one line, the empty one for empty content
RECURSIVE Split(_)
Split(content) ==
    LET nl == {i \in 1..Len(content) : content[i] = NL}
    IN  IF nl = {} THEN <<content>>
        ELSE <<SubSeq(content, 1, FirstIndex(nl) - 1)>>
             \o Split(SubSeq(content, FirstIndex(nl) + 1, Len(content)))

\* lines.slice(from, to) with indices counted from 0, `to` exclusive
Slice(lines, from, to) ==
    LET lo == IF from < 0 THEN 0 ELSE from
        hi == IF to > Len(lines) THEN Len(lines) ELSE to
    IN  SubSeq(lines, lo + 1, hi)

\* the line map of loadFile and rebuildLineMap: every index onto itself
IdentityLineMap(lines) ==
    [i \in 0..(Len(lines) - 1) |->
        [originalIndex |-> i, currentIndex |-> i, isValid |-> TRUE]]

FileState(content, lines, lineMap, pendingEdits) ==
    [content |-> content, lines |-> lines, lineMap |-> lineMap,
     pendingEdits |-> pendingEdits]

EditOperation(startIndex, endIndex, newContent) ==
    [startIndex |-> startIndex, endIndex |-> endIndex,
     newContent |-> newContent]

\* getCurrentLineIndex(state, originalIndex)
getCurrentLineIndex(state, originalIndex) ==
    IF originalIndex \in DOMAIN state.lineMap
       /\ state.lineMap[originalIndex].isValid
    THEN state.lineMap[originalIndex].currentIndex
    ELSE 0 - 1

\* applySingleEdit throws
applySingleEditThrows(state, lines, edit) ==
    LET currentStart == getCurrentLineIndex(state, edit.startIndex)
        currentEnd == getCurrentLineIndex(state, edit.endIndex)
    IN  \/ currentStart = 0 - 1
        \/ currentEnd = 0 - 1
        \/ currentStart < 0
        \/ currentEnd >= Len(lines)

\* applySingleEdit(state, lines, edit).newLines
applySingleEdit(state, lines, edit) ==
    LET currentStart == getCurrentLineIndex(state, edit.startIndex)
        currentEnd == getCurrentLineIndex(state, edit.endIndex)
    IN  Slice(lines, 0, currentStart) \o edit.newContent
        \o Slice(lines, currentEnd + 1, Len(lines))

\* applySingleEdit(state, lines, edit).affectedLines
affectedLines(state, lines, edit) ==
    LET currentStart == getCurrentLineIndex(state, edit.startIndex)
        currentEnd == getCurrentLineIndex(state, edit.endIndex)
        linesDiff == Len(edit.newContent) - (currentEnd - currentStart + 1)
        direct == [k \in 1..(edit.endIndex - edit.startIndex + 1) |->
                      edit.startIndex + k - 1]
        shifted == [k \in 1..(Len(state.lines) - 1 - edit.endIndex) |->
                       edit.endIndex + k]
    IN  IF linesDiff # 0 THEN direct \o shifted ELSE direct

\* Array.prototype.sort with (a, b) => b.startIndex - a.startIndex: the
\* highest start line first, edits with equal start lines in queue order
RECURSIVE SortDescending(_)
SortDescending(edits) ==
    IF edits = <<>> THEN <<>>
    ELSE LET e == edits[Len(edits)]
             rest == SortDescending(SubSeq(edits, 1, Len(edits) - 1))
             before == {i \in 1..Len(rest) : rest[i].startIndex >= e.startIndex}
             n == Cardinality(before)
         IN  SubSeq(rest, 1, n) \o <<e>> \o SubSeq(rest, n + 1, Len(rest))

\* variant: the edits are applied in the order in which they were queued
SortedEdits_QueueOrder(edits) == edits

\* const sortedEdits = [...state.pendingEdits].sort(...)
SortedEdits(edits) == SortDescending(edits)

\* the loop of applyEdits over the sorted edits: the lines, the changes and
\* the invalidated lines so far, and whether an edit threw
RECURSIVE ApplyLoop(_, _, _)
ApplyLoop(state, sortedEdits, acc) ==
    IF sortedEdits = <<>> \/ acc.failed THEN acc
    ELSE LET edit == Head(sortedEdits)
         IN  IF applySingleEditThrows(state, acc.currentLines, edit)
             THEN [acc EXCEPT !.failed = TRUE]
             ELSE ApplyLoop(state, Tail(sortedEdits),
                    [currentLines |-> applySingleEdit(state, acc.currentLines, edit),
                     changes |-> Append(acc.changes,
                                   [startIndex |-> edit.startIndex,
                                    endIndex |-> edit.endIndex,
                                    count |-> Len(edit.newContent)]),
                     invalidatedLines |->
                        acc.invalidatedLines
                        \o affectedLines(state, acc.currentLines, edit),
                     failed |-> FALSE])

\* ---- the files, the edits and the calls of EditorSpec -----------------------
\* the file on disk has n lines, line k holding the one character k
DiskFile(n) == Join([k \in 1..n |-> <<k>>])

\* the new content of the k-th edit: up to two lines no other edit and no
\* file holds
NewContents(k) ==
    {<<>>, <<<<100 * k + 1>>>>, <<<<100 * k + 1>>, <<100 * k + 2>>>>}

EditorInit ==
    /\ GraphIdle
    /\ includeExternal = FALSE
    /\ ResolverIdle
    /\ ParserIdle
    /\ \E n \in 1..MaxLines : fileOnDisk = DiskFile(n)
    /\ fileStates = <<>>
    /\ queued = 0
    /\ applyResult = <<>>

Loaded == FilePath \in DOMAIN fileStates
State == fileStates[FilePath]

\* loadFile(filePath)
LoadFile ==
    /\ fileStates' =
          (FilePath :> FileState(fileOnDisk, Split(fileOnDisk),
                                 IdentityLineMap(Split(fileOnDisk)), <<>>))
    /\ UNCHANGED <<graphVars, envVars, includeExternal, resolverVars,
                   parserVars, fileOnDisk, queued, applyResult>>

\* queueEdit(filePath, edit); it throws, and changes nothing, when the file
\* is not loaded or the range is out of bounds or empty
QueueEdit(edit) ==
    /\ queued < MaxEdits
    /\ Loaded
    /\ ~(edit.startIndex < 0 \/ edit.endIndex >= Len(State.lines))
    /\ ~(edit.startIndex > edit.endIndex)
    /\ fileStates' = [fileStates EXCEPT
                         ![FilePath].pendingEdits = Append(@, edit)]
    /\ queued' = queued + 1
    /\ UNCHANGED <<graphVars, envVars, includeExternal, resolverVars,
                   parserVars, fileOnDisk, applyResult>>

\* variant: an edit that throws leaves the lines of the edits before it in
\* the file state
ApplyEdits_CommitPartial ==
    /\ Loaded
    /\ LET done == ApplyLoop(State, SortedEdits(State.pendingEdits),
                             [currentLines |-> State.lines, changes |-> <<>>,
                              invalidatedLines |-> <<>>, failed |-> FALSE])
       IN  IF State.pendingEdits = <<>>
           THEN /\ applyResult' = <<[success |-> TRUE, changes |-> <<>>,
                                     invalidatedLines |-> <<>>]>>
                /\ UNCHANGED <<fileStates, fileOnDisk>>
           ELSE IF done.failed
           THEN /\ applyResult' = <<[success |-> FALSE,
                                     changes |-> done.changes,
                                     invalidatedLines |-> <<>>]>>
                /\ fileStates' = [fileStates EXCEPT
                                     ![FilePath].lines = done.currentLines]
                /\ UNCHANGED fileOnDisk
           ELSE /\ applyResult' = <<[success |-> TRUE,
                                     changes |-> done.changes,
                                     invalidatedLines |-> done.invalidatedLines]>>
                /\ fileStates' =
                      (FilePath :> FileState(Join(done.currentLines),
                                             done.currentLines,
                                             IdentityLineMap(done.currentLines),
                                             <<>>))
                /\ fileOnDisk' = Join(done.currentLines)
    /\ UNCHANGED <<graphVars, envVars, includeExternal, resolverVars,
                   parserVars, queued>>

\* applyEdits(filePath)
ApplyEdits ==
    /\ Loaded
    /\ LET done == ApplyLoop(State, SortedEdits(State.pendingEdits),
                             [currentLines |-> State.lines, changes |-> <<>>,
                              invalidatedLines |-> <<>>, failed |-> FALSE])
       IN  IF State.pendingEdits = <<>>
           THEN /\ applyResult' = <<[success |-> TRUE, changes |-> <<>>,
                                     invalidatedLines |-> <<>>]>>
                /\ UNCHANGED <<fileStates, fileOnDisk>>
           ELSE IF done.failed
           THEN /\ applyResult' = <<[success |-> FALSE,
                                     changes |-> done.changes,
                                     invalidatedLines |-> <<>>]>>
                /\ UNCHANGED <<fileStates, fileOnDisk>>
           ELSE /\ applyResult' = <<[success |-> TRUE,
                                     changes |-> done.changes,
                                     invalidatedLines |-> done.invalidatedLines]>>
                /\ fileStates' =
                      (FilePath :> FileState(Join(done.currentLines),
                                             done.currentLines,
                                             IdentityLineMap(done.currentLines),
                                             <<>>))
                /\ fileOnDisk' = Join(done.currentLines)
    /\ UNCHANGED <<graphVars, envVars, includeExternal, resolverVars,
                   parserVars, queued>>

EditorNext ==
    \/ LoadFile
    \/ /\ Loaded
       /\ \E startIndex, endIndex \in (0 - 1)..Len(State.lines) :
          \E newContent \in NewContents(queued + 1) :
             QueueEdit(EditOperation(startIndex, endIndex, newContent))
    \/ ApplyEdits

EditorSpec == EditorInit /\ [][EditorNext]_vars

\* ---- properties of the editor -----------------------------------------------
\* no two of the edits share a line
Disjoint(edits) ==
    \A i, j \in 1..Len(edits) :
       i # j => \/ edits[i].endIndex < edits[j].startIndex
                \/ edits[j].endIndex < edits[i].startIndex

\* the lines from index i on, each range replaced by the new content of its
\* edit and every line outside the ranges kept
RECURSIVE Replaced(_, _, _)
Replaced(lines, edits, i) ==
    IF i >= Len(lines) THEN <<>>
    ELSE LET starting == {k \in 1..Len(edits) : edits[k].startIndex = i}
             covering == {k \in 1..Len(edits) :
                            edits[k].startIndex < i /\ i <= edits[k].endIndex}
         IN  (IF starting # {}
              THEN edits[CHOOSE k \in starting : TRUE].newContent
              ELSE IF covering # {} THEN <<>>
              ELSE <<lines[i + 1]>>)
             \o Replaced(lines, edits, i + 1)

\* C27: applyEdits on queued edits with pairwise disjoint line ranges
\* succeeds and leaves exactly the loaded lines with each range replaced by
\* the new content of its edit, every other line kept in its place, whatever
\* the order in which the edits were queued; the queue is empty afterwards.
C27_DisjointEditsReplaceRanges ==
    [][(ApplyEdits /\ Disjoint(State.pendingEdits)) =>
          /\ applyResult'[1].success
          /\ fileStates'[FilePath].lines
                = Replaced(State.lines, State.pendingEdits, 0)
          /\ fileStates'[FilePath].content
                = Join(Replaced(State.lines, State.pendingEdits, 0))
          /\ fileStates'[FilePath].pendingEdits = <<>>]_vars

\* two disjoint edits, queued lowest range first, the first changing the
\* number of lines, were applied to a file of three lines
C27_Witness ==
    /\ Loaded
    /\ applyResult # <<>>
    /\ applyResult[1].success
    /\ applyResult[1].changes
          = <<[startIndex |-> 2, endIndex |-> 2, count |-> 1],
              [startIndex |-> 0, endIndex |-> 0, count |-> 2]>>
    /\ State.lines = <<<<101>>, <<102>>, <<2>>, <<201>>>>
    /\ State.pendingEdits = <<>>

\* C28: when applyEdits returns success=false the lines and the content of
\* the file state are as before the call, the pending edits are still
\* queued, and nothing was written to the file.
C28_FailureChangesNothing ==
    [][(ApplyEdits /\ ~applyResult'[1].success) =>
          /\ fileStates'[FilePath].lines = State.lines
          /\ fileStates'[FilePath].content = State.content
          /\ fileStates'[FilePath].pendingEdits = State.pendingEdits
          /\ State.pendingEdits # <<>>
          /\ fileOnDisk' = fileOnDisk]_vars

\* applyEdits failed at its second edit, after the first had been applied
C28_Witness ==
    /\ Loaded
    /\ applyResult # <<>>
    /\ ~applyResult[1].success
    /\ Len(applyResult[1].changes) = 1
    /\ Len(State.pendingEdits) = 2
    /\ fileOnDisk = DiskFile(Len(State.lines))

\* the indices of the lines outside the ranges of all the edits
OutsideAll(lines, edits) ==
    {i \in 0..(Len(lines) - 1) :
        \A k \in 1..Len(edits) :
           i < edits[k].startIndex \/ i > edits[k].endIndex}

\* C29: whenever applyEdits returns success=true, every loaded line outside
\* all queued edit ranges is still there, unmodified and in its original
\* relative order, for any edits queueEdit accepted, overlapping ones
\* included.
C29_OutsideLinesSurvive ==
    [][(ApplyEdits /\ applyResult'[1].success) =>
          LET out == OutsideAll(State.lines, State.pendingEdits)
              kept(l) == \E i \in out : State.lines[i + 1] = l
          IN  SelectSeq(fileStates'[FilePath].lines, kept)
                 = [k \in 1..Cardinality(out) |->
                      State.lines[1 + CHOOSE i \in out :
                                        Cardinality({j \in out : j < i}) = k - 1]]
         ]_vars

\* ---- AICodeAgent.scanProject on the shared extractor ------------------------
\* extractFilePathsFromTree(tree): the absolute paths of the nodes with
\* exists=true, the node before its dependencies, these in their order
RECURSIVE extractFilePathsFromTree(_)
extractFilePathsFromTree(pos) ==
    IF pos \notin DOMAIN tree THEN <<>>
    ELSE (IF NodeAt(pos).exists THEN <<NodeAt(pos).absolutePath>> ELSE <<>>)
         \o Flatten([k \in 1..NodeAt(pos).ndeps |->
                        extractFilePathsFromTree(Append(pos, k))])

\* extractFileDependencies(filePath): the paths of the tree, [] when analyze
\* threw
extractFileDependencies ==
    IF pc = "error" THEN <<>> ELSE extractFilePathsFromTree(<<>>)

\* what a fresh DependencyExtractor expands when it analyzes a file alone,
\* in the order of expansion: the files still to be looked at with their
\* depths, the files in its visited table, the files expanded so far.  The
\* imports of a file that was never read count as none.
RECURSIVE FreshExpansion(_, _, _)
FreshExpansion(todo, seen, out) ==
    IF todo = <<>> THEN out
    ELSE LET f == Head(todo)[1]
             d == Head(todo)[2]
             known == IF f \in DOMAIN imports THEN imports[f] ELSE <<>>
             found(x) == resolveImportPath(x, f) # Null
             targets == SelectSeq(known, found)
         IN  IF f \in seen \/ d > maxDepth
             THEN FreshExpansion(Tail(todo), seen, out)
             ELSE FreshExpansion(
                     [k \in 1..Len(targets) |->
                         <<resolveImportPath(targets[k], f), d + 1>>]
                     \o Tail(todo),
                     seen \cup {f}, Append(out, f))

FreshList(filePath) == FreshExpansion(<<<<filePath, 0>>>>, {}, <<>>)

\* the scan has analyzed existing files, each once, and has read every file
\* a fresh extractor would read for the last of them
ScannedLast ==
    /\ runs >= 1
    /\ pc \in {"done", "error"}
    /\ \A k \in 1..runs : existsSync(roots[k])
    /\ \A k, l \in 1..runs : k # l => roots[k] # roots[l]
    /\ \A k \in 1..Len(FreshList(Root)) : FreshList(Root)[k] \in DOMAIN imports

\* C30: the dependency list scanProject records for a file equals the list
\* a fresh DependencyExtractor produces for that file analysed alone,
\* whatever files were analysed before it on the shared instance.
C30_ScanListEqualsFreshList ==
    ScannedLast => extractFileDependencies = FreshList(Root)

\* the same for the first file of the scan only, where the shared instance
\* is fresh
FirstScannedEqualsFreshList ==
    (ScannedLast /\ runs = 1) => extractFileDependencies = FreshList(Root)
====
